---- MODULE Spec2Model ----
(***************************************************************************)
(* A model of the climate sampling / alerting / persistence engine of the  *)
(* luigi repository (src/sensors/climate).                                 *)
(*                                                                         *)
(* Units.  Temperatures and humidities that have passed round(x, 1) are    *)
(* integers counting tenths (22.5 C is 225); raw device values are         *)
(* integers counting hundredths (22.54 C is 2254).  Configured thresholds  *)
(* are whole degrees / percent.  Wall-clock time is in seconds.            *)
(***************************************************************************)
EXTENDS Integers, Sequences, FiniteSets, Bags, TLC

VARIABLES
    \* ---- configuration (Config.DEFAULT_CONFIG merged with the file) ----
    config,
    \* ---- wall clock (datetime.now()) ----
    now,
    \* ---- alert manager state (ClimateModule.__init__, lines 294-296) ----
    last_alert_time,    \* kind -> time of the last firing, NoTime if never
    last_alert_lock,    \* the caller holding the lock, NoCaller if free
    \* ---- snapshot mutex (ClimateModule.__init__, line 300) ----
    reading_lock,       \* the thread holding the lock, NoCaller if free
    \* ---- a ClimateCalculations function called on its own ----
    calc_call,          \* the function, its arguments, what came back
    \* ---- threads executing _check_thresholds / _trigger_alert ----
    apc,                \* per caller: position in the code
    aframe,             \* per caller: arguments and locals of the call
    ncalls,             \* number of _check_thresholds calls made so far
    \* ---- observable effects of alerting ----
    alert_log,          \* bag of the "ALERT: ..." warning entries written
    played,             \* bag of the _play_alert_sound invocations made
    \* ---- the sensor object (BaseSensor and its two drivers) ----
    sensor,             \* type, max_retries, _last_reading, cleanup count
    scall,              \* per caller: the read() / is_available() call
    \* ---- the orchestrator (ClimateModule) ----
    running,            \* self.running
    database,           \* self.database: present or not, close() count
    rows,               \* the climate_readings table of the store file
    latest_reading,     \* self.latest_reading, NoSnapshot if None
    reading_thread,     \* self.reading_thread: a thread id, NoThread if None
    logging_thread,     \* self.logging_thread
    rthr,               \* per thread id: the _reading_loop thread
    lthr,               \* per thread id: the _logging_loop thread
    ctl,                \* the start() / stop() call in progress
    proc,               \* "alive", or "exit1" after sys.exit(1)
    calls,              \* number of start() / stop() calls made
    trace,              \* what the current start() / stop() call has done
    \* ---- the store file (ClimateDatabase, climate_db.py) ----
    last_rowid,         \* sqlite_sequence: the largest id ever given
    store_call,         \* a direct call of a ClimateDatabase method
    \* ---- history ----
    did                 \* per observed loop: the events of its current cycle

alertVars == <<config, now, last_alert_time, last_alert_lock, apc, aframe,
               ncalls, alert_log, played, reading_lock, calc_call>>

sensorVars == <<sensor, scall>>

orchVars == <<running, database, rows, latest_reading, reading_thread,
              logging_thread, rthr, lthr, ctl, proc, calls, trace>>

storeVars == <<last_rowid, store_call>>

vars == <<alertVars, sensorVars, orchVars, storeVars, did>>

\* what the alert manager's steps, and the sensor's, leave alone
nonAlertVars  == <<sensorVars, orchVars, storeVars, did, reading_lock,
                   calc_call>>
nonSensorVars == <<alertVars, orchVars, storeVars, did>>

(***************************************************************************)
(* Bounds of the model.                                                    *)
(***************************************************************************)
MaxCalls == 2       \* _check_thresholds calls explored per behaviour

\* The instants at which the clock is observed: just below, on and above
\* the cooldown boundaries of one and two minutes.
ClockValues == {0, 59, 60, 120}

Callers   == {1, 2}
NoCaller  == 0
NoTime    == -1     \* dict.get() returning None
NoKind    == "none"

\* no exception
NoExc   == "none"

\* the loops of the module, and the history when none of them is observed
Loops == {"reader", "logger"}
Unobserved == <<>>

\* the history after an observed loop did the events, and after it began
\* a new cycle
Noted(d, loop, events) ==
    IF loop \in DOMAIN d THEN [d EXCEPT ![loop] = @ \o events] ELSE d
Cleared(d, loop) ==
    IF loop \in DOMAIN d THEN [d EXCEPT ![loop] = <<>>] ELSE d

\* no function of ClimateCalculations has been called
NoCalcCall == [fn |-> "none", args |-> <<>>, ret |-> <<>>, raised |-> "none"]

Kinds == {"too_cold", "too_hot", "too_dry", "too_humid"}

SecondsPerMinute == 60

\* Configurations explored: the alert section and the two threshold pairs.
\* (15,30) and (30,70) are the defaults; the inverted pairs are what a
\* configuration file may set.
CooldownChoices  == {1, 2}
TempThresholdChoices     == {<<15, 30>>, <<30, 15>>}
HumidityThresholdChoices == {<<30, 70>>, <<70, 30>>}

ThresholdChoices ==
    {<<t, h>> \in TempThresholdChoices \X HumidityThresholdChoices :
        (t[1] < t[2]) = (h[1] < h[2])}

Configs ==
    {[sensor_type      |-> "dht22",
      alerts_enabled   |-> e,
      audio_enabled    |-> a,
      cooldown_minutes |-> m,
      temp             |-> th[1],
      hum              |-> th[2]] :
        e \in BOOLEAN, a \in BOOLEAN, m \in CooldownChoices,
        th \in ThresholdChoices}

\* Readings handed to _check_thresholds, in tenths: inside the bounds, on
\* the bounds, and just outside them.
TestReadings ==
    {<<150, 300>>, <<300, 700>>, <<149, 300>>, <<301, 701>>}

(***************************************************************************)
(* _check_thresholds (climate_module.py 445-469), the two if/elif chains.  *)
(***************************************************************************)
AlertsEnabledAlways(cfg) == TRUE

\* `if not alert_config.get('enabled', True): return` (449-450)
AlertsEnabled(cfg) == cfg.alerts_enabled

TempAlertInclusive(cfg, temperature_c) ==
    IF temperature_c <= cfg.temp[1] * 10 THEN "too_cold"
    ELSE IF temperature_c >= cfg.temp[2] * 10 THEN "too_hot"
    ELSE NoKind

TempAlert(cfg, temperature_c) ==
    IF temperature_c < cfg.temp[1] * 10 THEN "too_cold"
    ELSE IF temperature_c > cfg.temp[2] * 10 THEN "too_hot"
    ELSE NoKind

HumidityAlert(cfg, humidity) ==
    IF humidity < cfg.hum[1] * 10 THEN "too_dry"
    ELSE IF humidity > cfg.hum[2] * 10 THEN "too_humid"
    ELSE NoKind

(***************************************************************************)
(* _trigger_alert (climate_module.py 471-500).                             *)
(***************************************************************************)
AlertKeyShared(alert_type) == "too_hot"

\* the key under which the last firing of a kind is kept (484, 493)
AlertKey(alert_type) == alert_type

CanAcquireUnlocked(lock) == TRUE

\* `with self.last_alert_lock:` can be entered
CanAcquire(lock) == lock = NoCaller

InCooldownInclusive(last_time, now_, cooldown_minutes) ==
    /\ last_time # NoTime
    /\ (now_ - last_time) <= cooldown_minutes * SecondsPerMinute

\* lines 487-490: last_time and (now - last_time).total_seconds() / 60 <
\* cooldown_minutes; the division is exact, so it is compared cross-wise.
InCooldown(last_time, now_, cooldown_minutes) ==
    /\ last_time # NoTime
    /\ (now_ - last_time) < cooldown_minutes * SecondsPerMinute

\* arguments and locals of one _check_thresholds call; called and fired
\* list the kinds _trigger_alert was called with and those that fired
IdleFrame == [t |-> 0, h |-> 0, alert_type |-> NoKind, after |-> "idle",
              last_time |-> NoTime, now |-> 0, called |-> <<>>,
              fired |-> <<>>]

\* enter _trigger_alert(kind) from one of the two chains, or fall through
Branch(c, frame, kind, next) ==
    IF kind = NoKind
    THEN /\ apc' = [apc EXCEPT ![c] = next]
         /\ aframe' = [aframe EXCEPT ![c] = frame]
    ELSE /\ apc' = [apc EXCEPT ![c] = "ta_lock"]
         /\ aframe' = [aframe EXCEPT ![c] =
                          [frame EXCEPT !.alert_type = kind,
                                        !.after = next,
                                        !.called = Append(@, kind)]]

\* _check_thresholds is entered with a reading; lines 445-464: return at
\* once when alerts are disabled, else the temperature chain
CheckThresholds(c) ==
    /\ apc[c] = "idle"
    /\ ncalls < MaxCalls
    /\ ncalls' = ncalls + 1
    /\ \E r \in TestReadings :
          LET frame == [IdleFrame EXCEPT !.t = r[1], !.h = r[2]] IN
          IF AlertsEnabled(config)
          THEN Branch(c, frame, TempAlert(config, r[1]), "hum")
          ELSE /\ apc' = [apc EXCEPT ![c] = "ret"]
               /\ aframe' = [aframe EXCEPT ![c] = frame]
    /\ UNCHANGED <<config, now, last_alert_time, last_alert_lock,
                   alert_log, played,
                   nonAlertVars>>

\* lines 466-469
CheckHumidity(c) ==
    /\ apc[c] = "hum"
    /\ Branch(c, aframe[c], HumidityAlert(config, aframe[c].h), "ret")
    /\ UNCHANGED <<config, now, last_alert_time, last_alert_lock, ncalls,
                   alert_log, played,
                   nonAlertVars>>

\* lines 483-485: take the lock, read the last firing and the clock
AcquireAlertLock(c) ==
    /\ apc[c] = "ta_lock"
    /\ CanAcquire(last_alert_lock)
    /\ last_alert_lock' = c
    /\ aframe' = [aframe EXCEPT
          ![c].last_time = last_alert_time[AlertKey(aframe[c].alert_type)],
          ![c].now = now]
    /\ apc' = [apc EXCEPT ![c] = "ta_decide"]
    /\ UNCHANGED <<config, now, last_alert_time, ncalls, alert_log, played,
                   nonAlertVars>>

DecideAlertRefreshing(c) ==
    /\ apc[c] = "ta_decide"
    /\ last_alert_lock' = NoCaller
    /\ last_alert_time' =
          [last_alert_time EXCEPT
              ![AlertKey(aframe[c].alert_type)] = aframe[c].now]
    /\ apc' = [apc EXCEPT ![c] =
                  IF InCooldown(aframe[c].last_time, aframe[c].now,
                                config.cooldown_minutes)
                  THEN aframe[c].after ELSE "ta_log"]
    /\ aframe' = [aframe EXCEPT ![c].fired =
                     IF InCooldown(aframe[c].last_time, aframe[c].now,
                                   config.cooldown_minutes)
                     THEN @ ELSE Append(@, aframe[c].alert_type)]
    /\ UNCHANGED <<config, now, ncalls, alert_log, played,
                   nonAlertVars>>

\* lines 487-493: return inside the cooldown, else record the firing; the
\* lock is released either way
DecideAlert(c) ==
    /\ apc[c] = "ta_decide"
    /\ last_alert_lock' = NoCaller
    /\ IF InCooldown(aframe[c].last_time, aframe[c].now,
                     config.cooldown_minutes)
       THEN /\ apc' = [apc EXCEPT ![c] = aframe[c].after]
            /\ UNCHANGED last_alert_time
       ELSE /\ apc' = [apc EXCEPT ![c] = "ta_log"]
            /\ last_alert_time' =
                  [last_alert_time EXCEPT
                      ![AlertKey(aframe[c].alert_type)] = aframe[c].now]
    /\ aframe' = [aframe EXCEPT ![c].fired =
                     IF InCooldown(aframe[c].last_time, aframe[c].now,
                                   config.cooldown_minutes)
                     THEN @ ELSE Append(@, aframe[c].alert_type)]
    /\ UNCHANGED <<config, now, ncalls, alert_log, played,
                   nonAlertVars>>

\* line 496, then the test of line 499
LogAlert(c) ==
    /\ apc[c] = "ta_log"
    /\ alert_log' = alert_log (+)
                       SetToBag({[kind |-> aframe[c].alert_type,
                                  at |-> aframe[c].now]})
    /\ apc' = [apc EXCEPT ![c] =
                  IF config.audio_enabled THEN "ta_play" ELSE aframe[c].after]
    /\ UNCHANGED <<config, now, last_alert_time, last_alert_lock, aframe,
                   ncalls, played,
                   nonAlertVars>>

\* what _play_alert_sound can meet (508-515): the sound is played (aplay
\* may fail, check=False), no file is configured or it does not exist,
\* aplay is still running after 10 s, aplay cannot be started
PlaybackOutcomes == {"played", "no_file", "timeout", "error"}

\* what subprocess.run raises into the try block of _play_alert_sound
PlaybackRaises(outcome) ==
    CASE outcome = "timeout" -> "TimeoutExpired"
      [] outcome = "error"   -> "OSError"
      [] OTHER               -> NoExc

PlaybackCatchesNothing(exc) == FALSE

\* `except Exception` of _play_alert_sound (517)
PlaybackCatches(exc) == TRUE

\* line 500 and _play_alert_sound (502-518): whatever the player does is
\* swallowed there; an exception that were not would leave _trigger_alert
PlayAlertSound(c) ==
    /\ apc[c] = "ta_play"
    /\ played' = played (+) SetToBag({[kind |-> aframe[c].alert_type,
                                       at |-> aframe[c].now]})
    /\ \E outcome \in PlaybackOutcomes :
          /\ apc' = [apc EXCEPT ![c] =
                        IF PlaybackRaises(outcome) = NoExc
                           \/ PlaybackCatches(PlaybackRaises(outcome))
                        THEN aframe[c].after ELSE "raised"]
          /\ did' = Noted(did, "reader", <<"playback_" \o outcome>>)
    /\ UNCHANGED <<config, now, last_alert_time, last_alert_lock, aframe,
                   ncalls, alert_log, sensorVars, orchVars, storeVars,
                   reading_lock, calc_call>>

\* _check_thresholds returns
ReturnFromCheck(c) ==
    /\ apc[c] = "ret"
    /\ apc' = [apc EXCEPT ![c] = "idle"]
    /\ aframe' = [aframe EXCEPT ![c] = IdleFrame]
    /\ UNCHANGED <<config, now, last_alert_time, last_alert_lock,
                   ncalls, alert_log, played,
                   nonAlertVars>>

\* the wall clock advances
Tick ==
    /\ \E t \in ClockValues : /\ t > now
                              /\ now' = t
    /\ UNCHANGED <<config, last_alert_time, last_alert_lock, apc, aframe,
                   ncalls, alert_log, played,
                   nonAlertVars>>

(***************************************************************************)
(* The sensor drivers (sensors/dht22_sensor.py, sensors/bme280_sensor.py). *)
(***************************************************************************)
SensorTypes == {"dht22", "bme280"}

\* max_retries as ClimateModule sets it (climate_module.py 361, 368) and
\* as the drivers default it
DefaultMaxRetries == 3
RetryChoices == 0..DefaultMaxRetries

Missing == -99999       \* a device field that is None

NoReading == [none |-> TRUE]    \* read() returning None

TempRangeWide(type) == <<-40, 85>>

\* valid temperature range of a driver, in degrees (dht22 120, bme280 109)
TempRange(type) == IF type = "dht22" THEN <<-40, 80>> ELSE <<-40, 85>>
HumidityRange == <<0, 100>>

\* Python's round(x, 1) of a value given in hundredths, result in tenths
\* (ties go to the even tenth)
Round1(x) ==
    LET q == x \div 10
        r == x % 10
    IN  IF r < 5 THEN q
        ELSE IF r > 5 THEN q + 1
        ELSE IF q % 2 = 0 THEN q ELSE q + 1

\* What one acquisition can give: an exception of the device library, or
\* the three properties (hundredths), each possibly None.
Outcome(exc, t, h, p) == [exc |-> exc, t |-> t, h |-> h, p |-> p]

DeviceOutcomes ==
    {Outcome("RuntimeError", Missing, Missing, Missing),
     Outcome("OSError", Missing, Missing, Missing),
     Outcome(NoExc, Missing, 4546, 101325),
     Outcome(NoExc, 2254, Missing, 101325),
     Outcome(NoExc, 2254, 4546, Missing)}
    \cup {Outcome(NoExc, t, 4546, 101325) :
            t \in {-4001, -4000, 2254, 8000, 8001, 8500, 8501}}
    \cup {Outcome(NoExc, 2254, h, 101325) : h \in {-1, 0, 10000, 10001}}

Failed(exc) == [exc |-> exc, reading |-> NoReading]

\* dht22_sensor.py 113-132: one pass through the try block
AttemptDHT22(o) ==
    IF o.exc # NoExc THEN Failed(o.exc)
    ELSE IF o.t = Missing \/ o.h = Missing THEN Failed("ValueError")
    ELSE IF ~(TempRange("dht22")[1] * 100 <= o.t
              /\ o.t <= TempRange("dht22")[2] * 100)
         THEN Failed("ValueError")
    ELSE IF ~(HumidityRange[1] * 100 <= o.h /\ o.h <= HumidityRange[2] * 100)
         THEN Failed("ValueError")
    ELSE [exc |-> NoExc,
          reading |-> [temperature |-> Round1(o.t),
                       humidity |-> Round1(o.h)]]

\* bme280_sensor.py 102-123: one pass through the try block; round() of a
\* pressure that is None raises TypeError
AttemptBME280(o) ==
    IF o.exc # NoExc THEN Failed(o.exc)
    ELSE IF o.t = Missing \/ o.h = Missing THEN Failed("ValueError")
    ELSE IF ~(TempRange("bme280")[1] * 100 <= o.t
              /\ o.t <= TempRange("bme280")[2] * 100)
         THEN Failed("ValueError")
    ELSE IF ~(HumidityRange[1] * 100 <= o.h /\ o.h <= HumidityRange[2] * 100)
         THEN Failed("ValueError")
    ELSE IF o.p = Missing THEN Failed("TypeError")
    ELSE [exc |-> NoExc,
          reading |-> [temperature |-> Round1(o.t),
                       humidity |-> Round1(o.h),
                       pressure |-> Round1(o.p)]]

AttemptUnchecked(type, o) ==
    IF o.exc # NoExc THEN Failed(o.exc)
    ELSE IF o.t = Missing \/ o.h = Missing \/ o.p = Missing
         THEN Failed("ValueError")
    ELSE [exc |-> NoExc,
          reading |-> [temperature |-> Round1(o.t),
                       humidity |-> Round1(o.h)]]

\* one pass through the try block of read(), by driver
Attempt(type, o) ==
    IF type = "dht22" THEN AttemptDHT22(o) ELSE AttemptBME280(o)

CatchesRuntimeErrorOnly(type, exc) == exc = "RuntimeError"

\* the except clauses of the loop body: RuntimeError and Exception in
\* dht22_sensor.py 134-145, Exception in bme280_sensor.py 125-129
Catches(type, exc) ==
    exc \in {"RuntimeError", "OSError", "ValueError", "TypeError"}

IsAvailableFromLastReading(reading, last_reading) == last_reading # NoReading

\* is_available (dht22 157-158, bme280 141-142): reading is not None
IsAvailableResult(reading, last_reading) == reading # NoReading

SensorCallers == {"main"}

\* a call frame: mode is the method called, attempt the loop variable,
\* result what read() returned; tried, sleeps, nreads and first_valid
\* record what the call did and what the device offered
IdleCall == [pc |-> "idle", mode |-> "none", attempt |-> 0, result |-> NoReading,
             available |-> FALSE, raised |-> NoExc,
             tried |-> 0, sleeps |-> 0, nreads |-> 0, first_valid |-> 0]

\* What the device of the running station gives: a bus error, a sample in
\* range, a temperature at the upper limit of the BME280 (above that of
\* the DHT22), one above both limits, one below the lower limit, and a
\* humidity above 100
StationOutcomes ==
    {Outcome("RuntimeError", Missing, Missing, Missing),
     Outcome(NoExc, 2254, 4546, 101325),
     Outcome(NoExc, 8500, 4546, 101325),
     Outcome(NoExc, 8560, 4546, 101325),
     Outcome(NoExc, -4040, 4546, 101325),
     Outcome(NoExc, 2254, 10040, 101325)}

\* What the device gives in a room whose air can be completely dry: a bus
\* error, a sample in range, and a sample of humidity 0
DryRoomOutcomes ==
    {Outcome("RuntimeError", Missing, Missing, Missing),
     Outcome(NoExc, 2254, 4546, 101325),
     Outcome(NoExc, 2254, 0, 101325)}

\* what self.dht_device / self.bme_device can give, by where the device is
DeviceGives(device) ==
    CASE device = "station"  -> StationOutcomes
      [] device = "dry_room" -> DryRoomOutcomes
      [] OTHER               -> {}

NoSensor == [type |-> "none", max_retries |-> 0, last_reading |-> NoReading,
             cleanups |-> 0, device |-> "none"]

\* DHT22Sensor.__init__ / BME280Sensor.__init__ and BaseSensor.__init__
NewSensor(type, max_retries) ==
    [type |-> type, max_retries |-> max_retries, last_reading |-> NoReading,
     cleanups |-> 0, device |-> "station"]

\* the validity the specification gives a device value: no read error, no
\* field missing, every field within the device's range
ValidOutcome(type, o) ==
    /\ o.exc = NoExc
    /\ o.t # Missing /\ o.h # Missing
    /\ type = "bme280" => o.p # Missing
    /\ o.t >= TempRange(type)[1] * 100 /\ o.t <= TempRange(type)[2] * 100
    /\ o.h >= 0 /\ o.h <= 10000

\* read() or is_available() is called
SensorCall(c, mode) ==
    /\ scall[c].pc = "idle"
    /\ sensor.type \in SensorTypes
    /\ scall' = [scall EXCEPT ![c] =
                    [IdleCall EXCEPT !.pc = "loop", !.mode = mode,
                                     !.nreads = 1]]
    /\ UNCHANGED sensor
    /\ UNCHANGED nonSensorVars
SleepsAfterEveryFailure(attempt, max_retries) == TRUE

\* `if attempt < self.max_retries - 1: time.sleep(self.retry_delay)` of the
\* except clauses (dht22 137 and 143, bme280 127)
SleepsBeforeRetry(attempt, max_retries) == attempt < max_retries - 1

\* one iteration of `for attempt in range(self.max_retries)`
ReadAttempt(c) ==
    /\ scall[c].pc = "loop"
    /\ scall[c].attempt < sensor.max_retries
    /\ \E o \in DeviceOutcomes :
          LET a  == Attempt(sensor.type, o)
              f  == [scall[c] EXCEPT
                        !.tried = @ + 1,
                        !.first_valid =
                            IF @ = 0 /\ ValidOutcome(sensor.type, o)
                            THEN scall[c].attempt + 1 ELSE @]
          IN  IF a.exc = NoExc
              THEN /\ sensor' = [sensor EXCEPT !.last_reading = a.reading]
                   /\ scall' = [scall EXCEPT ![c] =
                                   [f EXCEPT !.result = a.reading,
                                             !.pc = "returned"]]
              ELSE IF Catches(sensor.type, a.exc)
              THEN /\ UNCHANGED sensor
                   /\ scall' = [scall EXCEPT ![c] =
                                   [f EXCEPT
                                      !.pc = IF SleepsBeforeRetry(
                                                    f.attempt,
                                                    sensor.max_retries)
                                             THEN "sleep" ELSE "loop",
                                      !.attempt = @ + 1]]
              ELSE /\ UNCHANGED sensor
                   /\ scall' = [scall EXCEPT ![c] =
                                   [f EXCEPT !.pc = "raised",
                                             !.raised = a.exc]]
    /\ UNCHANGED nonSensorVars
\* time.sleep(self.retry_delay) between two attempts
RetrySleep(c) ==
    /\ scall[c].pc = "sleep"
    /\ scall' = [scall EXCEPT ![c].pc = "loop", ![c].sleeps = @ + 1]
    /\ UNCHANGED sensor
    /\ UNCHANGED nonSensorVars
\* the loop is exhausted: warning and `return None`
ReadExhausted(c) ==
    /\ scall[c].pc = "loop"
    /\ scall[c].attempt >= sensor.max_retries
    /\ scall' = [scall EXCEPT ![c].pc = "returned", ![c].result = NoReading]
    /\ UNCHANGED sensor
    /\ UNCHANGED nonSensorVars
\* is_available returns `reading is not None`
IsAvailableReturn(c) ==
    /\ scall[c].pc = "returned"
    /\ scall[c].mode = "is_available"
    /\ scall' = [scall EXCEPT
                    ![c].pc = "answered",
                    ![c].available =
                        IsAvailableResult(scall[c].result, sensor.last_reading)]
    /\ UNCHANGED sensor
    /\ UNCHANGED nonSensorVars
\* the caller takes the result; the frame is dropped
SensorCallEnds(c) ==
    /\ \/ scall[c].pc = "returned" /\ scall[c].mode = "read"
       \/ scall[c].pc = "answered"
    /\ scall' = [scall EXCEPT ![c] = IdleCall]
    /\ UNCHANGED sensor
    /\ UNCHANGED nonSensorVars
NoThread   == 0
NoSnapshot == [none |-> TRUE]
\* self.database: closes and cleanups count the close() and
\* cleanup_old_data() calls made on the object, capacity is the number of
\* rows the file system has room for
NoDatabase == [present |-> FALSE, closes |-> 0, cleanups |-> 0,
               retention_days |-> 0, capacity |-> 0]
\* a direct call of a store method: what was called and when, what it
\* returned ("none" if it raised), what it raised, what it did, and
\* whether it repeats the call before it: the same method, at the same
\* moment, after a call that went through
NoStoreCall == [op |-> "none", at |-> 0, ret |-> "none", raised |-> "none",
                did |-> <<>>, again |-> FALSE]
StoreCall(op, at, result, before) ==
    [op |-> op, at |-> at, ret |-> result.ret, raised |-> result.raised,
     did |-> result.did,
     again |-> before.op = op /\ before.at = at /\ before.raised = "none"
                  /\ Len(before.did) = 1]

\* thread objects that start() can create; a thread is never started twice
ThreadIds == {1, 2}

UnbornThread == [pc |-> "unborn", reading |-> NoReading]

\* ClimateModule.__init__ (climate_module.py 287-300)
InitOrchIdle ==
    /\ running = FALSE
    /\ database = NoDatabase
    /\ rows = <<>>
    /\ latest_reading = NoSnapshot
    /\ reading_thread = NoThread
    /\ logging_thread = NoThread
    /\ rthr = [i \in ThreadIds |-> UnbornThread]
    /\ lthr = [i \in ThreadIds |-> UnbornThread]
    /\ ctl = [pc |-> "idle", call |-> "none"]
    /\ proc = "alive"
    /\ calls = 0
    /\ trace = <<>>
    /\ last_rowid = 0
    /\ store_call = NoStoreCall
    /\ did = Unobserved

InitSensorIdle ==
    /\ sensor = NoSensor
    /\ scall = [c \in SensorCallers |-> IdleCall]

DefaultConfig ==
    [sensor_type |-> "dht22", alerts_enabled |-> TRUE, audio_enabled |-> TRUE,
     cooldown_minutes |-> 30, temp |-> <<15, 30>>, hum |-> <<30, 70>>,
     logging_seconds |-> 300, retention_days |-> 30]

InitAlertIdle ==
    /\ now = 0
    /\ last_alert_time = [k \in Kinds |-> NoTime]
    /\ last_alert_lock = NoCaller
    /\ reading_lock = NoCaller
    /\ calc_call = NoCalcCall
    /\ apc = [c \in Callers |-> "idle"]
    /\ aframe = [c \in Callers |-> IdleFrame]
    /\ ncalls = 0
    /\ alert_log = EmptyBag
    /\ played = EmptyBag

InitSensor ==
    /\ InitAlertIdle
    /\ config = DefaultConfig
    /\ InitOrchIdle
    /\ \E type \in SensorTypes, max_retries \in RetryChoices :
          sensor = NewSensor(type, max_retries)
    /\ scall = [c \in SensorCallers |-> IdleCall]

NextSensor ==
    \/ \E c \in SensorCallers : SensorCall(c, "read")
    \/ \E c \in SensorCallers : SensorCall(c, "is_available")
    \/ \E c \in SensorCallers : ReadAttempt(c)
    \/ \E c \in SensorCallers : RetrySleep(c)
    \/ \E c \in SensorCallers : ReadExhausted(c)
    \/ \E c \in SensorCallers : IsAvailableReturn(c)
    \/ \E c \in SensorCallers : SensorCallEnds(c)

SpecSensor == InitSensor /\ [][NextSensor]_vars


(***************************************************************************)
(* The orchestrator (climate_module.py, class ClimateModule).              *)
(*                                                                         *)
(* start() and stop() are called one at a time; a start() that has         *)
(* launched the loops stays in its keep-alive loop (632-635) while other   *)
(* calls are made.  The store keeps every row for the time the model       *)
(* covers: it is shorter than the retention period.                        *)
(***************************************************************************)
MaxApiCalls == 3    \* start() / stop() calls explored per behaviour
MaxRows     == 1    \* rows the store accepts before every insert fails

\* sensor.type as configured; anything but the two drivers is unknown
SensorTypeChoices == SensorTypes \cup {"unknown"}

MainConfigs == {[DefaultConfig EXCEPT !.sensor_type = ty] :
                    ty \in SensorTypeChoices}

\* What a read() call can return: the loop of the driver, attempt by
\* attempt, over everything the device can give.
RECURSIVE ReadResultsOf(_, _, _)
ReadResultsOf(device, type, attempts_left) ==
    IF attempts_left = 0 THEN {NoReading}
    ELSE {Attempt(type, o).reading :
            o \in {d \in device : Attempt(type, d).exc = NoExc}}
         \cup (IF \E d \in device :
                     /\ Attempt(type, d).exc # NoExc
                     /\ Catches(type, Attempt(type, d).exc)
               THEN ReadResultsOf(device, type, attempts_left - 1)
               ELSE {})

\* read() of a sensor just constructed
ReadResults(type, attempts_left) ==
    ReadResultsOf(DeviceGives(NewSensor(type, attempts_left).device), type,
                  attempts_left)

\* celsius_to_fahrenheit (155-157), tenths of a degree C to hundredths F
CelsiusToFahrenheit(celsius) == celsius * 18 + 3200

ComfortLevelInclusive(temperature_c, humidity) ==
    LET tissue == IF temperature_c <= 180 THEN <<"too_cold">>
                  ELSE IF temperature_c >= 260 THEN <<"too_hot">>
                  ELSE <<>>
        hissue == IF humidity <= 300 THEN <<"too_dry">>
                  ELSE IF humidity >= 600 THEN <<"too_humid">>
                  ELSE <<>>
        issues == tissue \o hissue
    IN  IF issues = <<>> THEN <<"comfortable">> ELSE issues

\* calculate_comfort_level (232-264), values in tenths: the issues found,
\* or 'comfortable' alone
ComfortLevel(temperature_c, humidity) ==
    LET tissue == IF temperature_c < 180 THEN <<"too_cold">>
                  ELSE IF temperature_c > 260 THEN <<"too_hot">>
                  ELSE <<>>
        hissue == IF humidity < 300 THEN <<"too_dry">>
                  ELSE IF humidity > 600 THEN <<"too_humid">>
                  ELSE <<>>
        issues == tissue \o hissue
    IN  IF issues = <<>> THEN <<"comfortable">> ELSE issues

\* calculate_dew_point (181): math.log(humidity / 100.0) raises ValueError
\* for a humidity of 0
DewPointRaises(temperature_c, humidity) == humidity = 0

\* the dictionary _process_reading stores (423-431), without dew point and
\* heat index, which nothing reads back from it; the calculator section
\* computes them
Snapshot(reading, timestamp) ==
    [timestamp     |-> timestamp,
     temperature_c |-> reading.temperature,
     temperature_f |-> CelsiusToFahrenheit(reading.temperature),
     humidity      |-> reading.humidity,
     comfort_level |-> ComfortLevel(reading.temperature, reading.humidity)]

\* _trigger_alert run to completion: the alert state after a call
TriggerAlertDone(st, kind) ==
    IF kind = NoKind
       \/ InCooldown(st.last[AlertKey(kind)], now, config.cooldown_minutes)
    THEN st
    ELSE LET e == SetToBag({[kind |-> kind, at |-> now]}) IN
         [last   |-> [st.last EXCEPT ![AlertKey(kind)] = now],
          log    |-> st.log (+) e,
          played |-> IF config.audio_enabled THEN st.played (+) e
                     ELSE st.played]

\* _check_thresholds run to completion
CheckThresholdsDone(st, temperature_c, humidity) ==
    IF ~AlertsEnabled(config) THEN st
    ELSE TriggerAlertDone(
             TriggerAlertDone(st, TempAlert(config, temperature_c)),
             HumidityAlert(config, humidity))

\* ClimateDatabase.__init__ (climate_db.py 22-39)
NewDatabase(retention_days, capacity) ==
    [present |-> TRUE, closes |-> 0, cleanups |-> 0,
     retention_days |-> retention_days, capacity |-> capacity]

SecondsPerDay == 86400
SpaceChar == 32     \* the code of " "
TChar     == 84     \* the code of "T"

\* A timestamp text is kept as its three parts: the date "YYYY-MM-DD" as
\* the number of the day, the separator as its character code, the time
\* "HH:MM:SS" as the second of the day.  The parts have fixed widths, so
\* comparing the parts in turn is comparing the texts.  The host's clock
\* is taken to be UTC.

\* DEFAULT CURRENT_TIMESTAMP of the table (climate_db.py 51):
\* "YYYY-MM-DD HH:MM:SS"
CurrentTimestamp(now_) ==
    <<now_ \div SecondsPerDay, SpaceChar, now_ % SecondsPerDay>>

\* datetime.isoformat() (climate_db.py 245): "YYYY-MM-DDTHH:MM:SS"
IsoFormat(t) == <<t \div SecondsPerDay, TChar, t % SecondsPerDay>>

\* `timestamp < ?` of the DELETE statement: both sides are texts, SQLite
\* compares them character by character
RECURSIVE TextLess(_, _)
TextLess(a, b) ==
    IF b = <<>> THEN FALSE
    ELSE IF a = <<>> THEN TRUE
    ELSE IF Head(a) # Head(b) THEN Head(a) < Head(b)
    ELSE TextLess(Tail(a), Tail(b))

\* how a statement of the store can end: it succeeds, sqlite3 raises one
\* of its errors, or something else is raised
StoreOutcomes == {"ok", "sqlite3.Error", "Exception"}

StoreCatchesNothing(exc) == FALSE

\* `except sqlite3.Error` of the store's methods (climate_db.py 102, 254)
StoreCatches(exc) == exc = "sqlite3.Error"

\* None, and a value that is there: a sequence of no or one element
Absent == <<>>

\* reading.get(key) (climate_module.py 587-589) and the None defaults of
\* log_reading's optional parameters (climate_db.py 75-76)
Optional(snap, key) == IF key \in DOMAIN snap THEN snap[key] ELSE Absent

\* the row an INSERT of log_reading makes (climate_db.py 93-98)
NewRow(rowid, snap, now_) ==
    [id            |-> rowid,
     timestamp     |-> CurrentTimestamp(now_),
     temperature_c |-> snap.temperature_c,
     temperature_f |-> snap.temperature_f,
     humidity      |-> snap.humidity,
     dew_point_c   |-> Optional(snap, "dew_point_c"),
     heat_index_c  |-> Optional(snap, "heat_index_c"),
     comfort_level |-> snap.comfort_level]

\* how a store method ends when its statement raised exc: False / 0 when
\* the method catches it, else the exception goes to the caller
StoreFailure(rows_, last, exc, failure) ==
    [rows |-> rows_, last_rowid |-> last,
     ret |-> IF StoreCatches(exc) THEN failure ELSE "none",
     raised |-> IF StoreCatches(exc) THEN NoExc ELSE exc,
     did |-> <<exc>> \o
             (IF StoreCatches(exc) THEN <<"returned_failure">>
              ELSE <<"raised">>)]

\* an INSERT into a table whose key is not AUTOINCREMENT: the id is one
\* more than the greatest id in the table
LogReadingReusingIds(rows_, last, capacity, snap, now_, outcome) ==
    LET o == IF outcome = "ok" /\ Len(rows_) >= capacity
             THEN "sqlite3.Error" ELSE outcome
        top == IF rows_ = <<>> THEN 0 ELSE rows_[Len(rows_)].id
    IN  IF o = "ok"
        THEN [rows |-> Append(rows_, NewRow(top + 1, snap, now_)),
              last_rowid |-> top + 1, ret |-> TRUE, raised |-> NoExc,
              did |-> <<"log_reading", "returned_success">>]
        ELSE [StoreFailure(rows_, last, o, FALSE) EXCEPT
                 !.did = <<"log_reading">> \o @]

\* ClimateDatabase.log_reading (climate_db.py 74-104); a file system with
\* no room left makes the INSERT fail with an sqlite3 error
LogReading(rows_, last, capacity, snap, now_, outcome) ==
    LET o == IF outcome = "ok" /\ Len(rows_) >= capacity
             THEN "sqlite3.Error" ELSE outcome
    IN  IF o = "ok"
        THEN [rows |-> Append(rows_, NewRow(last + 1, snap, now_)),
              last_rowid |-> last + 1, ret |-> TRUE, raised |-> NoExc,
              did |-> <<"log_reading", "returned_success">>]
        ELSE [StoreFailure(rows_, last, o, FALSE) EXCEPT
                 !.did = <<"log_reading">> \o @]

\* the WHERE clause of cleanup_old_data (climate_db.py 238-245)
Expired(row, now_, retention_days) ==
    TextLess(row.timestamp, IsoFormat(now_ - retention_days * SecondsPerDay))

\* a DELETE that removes the first expired row only
CleanupFirstExpired(rows_, now_, retention_days, outcome) ==
    LET expired == {k \in 1..Len(rows_) :
                       Expired(rows_[k], now_, retention_days)}
        first   == CHOOSE k \in expired : \A j \in expired : k <= j
    IN  IF outcome = "ok" /\ expired # {}
        THEN [rows |-> SubSeq(rows_, 1, first - 1)
                         \o SubSeq(rows_, first + 1, Len(rows_)),
              ret |-> 1, raised |-> NoExc, did |-> <<"cleanup_old_data">>]
        ELSE [rows |-> rows_, ret |-> 0, raised |-> NoExc,
              did |-> <<"cleanup_old_data">>]

\* ClimateDatabase.cleanup_old_data (climate_db.py 230-256)
CleanupOldData(rows_, now_, retention_days, outcome) ==
    IF outcome = "ok"
    THEN LET kept == SelectSeq(rows_,
                        LAMBDA r : ~Expired(r, now_, retention_days))
         IN  [rows |-> kept, ret |-> Len(rows_) - Len(kept),
              raised |-> NoExc, did |-> <<"cleanup_old_data">>]
    ELSE LET f == StoreFailure(rows_, 0, outcome, 0)
         IN  [rows |-> f.rows, ret |-> f.ret, raised |-> f.raised,
              did |-> <<"cleanup_old_data">> \o f.did]

\* the test of line 598: hour == 3 and minute < 5
InCleanupWindow(now_) ==
    /\ (now_ % SecondsPerDay) \div 3600 = 3
    /\ ((now_ % SecondsPerDay) % 3600) \div 60 < 5

StartAbortsNever(ok) == FALSE

\* `if not self._initialize_...(): sys.exit(1)` (613-619)
StartAborts(ok) == ~ok

StartIsNoopNever(running_) == FALSE

\* `if self.running: warning; return` (608-610)
StartIsNoop(running_) == running_

StopIsNoopAlways(running_) == TRUE

\* `if not self.running: return` (642-643)
StopIsNoop(running_) == ~running_

\* the lifecycle state an observer can read: the one flag self.running
\* (290, 622, 646); the module keeps no other
Lifecycle(running_) == IF running_ THEN "running" ELSE "stopped"

StopOrderCloseFirst == <<"join_reading", "join_logging", "close", "cleanup">>

\* the steps of stop() after the flag is cleared, in the order of lines
\* 649-661
StopOrder == <<"join_reading", "join_logging", "cleanup", "close">>

\* where stop() goes after a step: the next one, or it returns
StopNext(step) ==
    LET k == CHOOSE n \in 1..Len(StopOrder) : StopOrder[n] = step
    IN  IF k = Len(StopOrder) THEN "idle" ELSE StopOrder[k + 1]

IsAlive(thread) == thread.pc \notin {"unborn", "exited", "dead"}

\* the thread object the next start() creates
FreshThread ==
    IF \E i \in ThreadIds : rthr[i].pc = "unborn"
    THEN CHOOSE i \in ThreadIds :
            /\ rthr[i].pc = "unborn"
            /\ \A j \in ThreadIds : rthr[j].pc = "unborn" => i <= j
    ELSE NoThread

ApiIdle == proc = "alive" /\ ctl.pc \in {"idle", "keepalive"}

loopVars == <<rthr, lthr, latest_reading, rows>>

\* start() is called (606-610)
StartCall ==
    /\ ApiIdle
    /\ calls < MaxApiCalls
    /\ calls' = calls + 1
    /\ IF StartIsNoop(running)
       THEN /\ ctl' = [ctl EXCEPT !.call = "start_noop"]
            /\ trace' = <<"warning">>
       ELSE /\ FreshThread # NoThread
            /\ ctl' = [pc |-> "init_sensor", call |-> "start"]
            /\ trace' = <<>>
    /\ UNCHANGED <<running, database, reading_thread, logging_thread, proc,
                   loopVars, alertVars, storeVars, did, sensorVars>>

\* _initialize_sensor (351-385) and the test of line 613
InitializeSensor ==
    /\ proc = "alive"
    /\ ctl.pc = "init_sensor"
    /\ \E res \in IF config.sensor_type \in SensorTypes
                  THEN ReadResults(config.sensor_type, DefaultMaxRetries)
                  ELSE {NoReading} :
          LET made == config.sensor_type \in SensorTypes
              new  == [NewSensor(config.sensor_type, DefaultMaxRetries)
                          EXCEPT !.last_reading = res]
              ok   == made /\ IsAvailableResult(res, new.last_reading)
          IN  /\ sensor' = IF made THEN new ELSE sensor
              /\ IF StartAborts(ok)
                 THEN /\ proc' = "exit1"
                      /\ ctl' = [ctl EXCEPT !.pc = "exited"]
                      /\ trace' = Append(trace, "sensor_fail")
                 ELSE /\ proc' = proc
                      /\ ctl' = [ctl EXCEPT !.pc = "init_db"]
                      /\ trace' = Append(trace,
                                    IF ok THEN "sensor_ok" ELSE "sensor_fail")
    /\ UNCHANGED <<running, database, reading_thread, logging_thread, calls,
                   loopVars, alertVars, storeVars, did, scall>>

\* _initialize_database (387-401) and the test of line 617
InitializeDatabase ==
    /\ proc = "alive"
    /\ ctl.pc = "init_db"
    /\ \E ok \in BOOLEAN :
          /\ database' = IF ok THEN NewDatabase(config.retention_days, MaxRows)
                         ELSE database
          /\ IF StartAborts(ok)
             THEN /\ proc' = "exit1"
                  /\ ctl' = [ctl EXCEPT !.pc = "exited"]
                  /\ trace' = Append(trace, "db_fail")
             ELSE /\ proc' = proc
                  /\ ctl' = [ctl EXCEPT !.pc = "set_running"]
                  /\ trace' = Append(trace,
                                IF ok THEN "db_ok" ELSE "db_fail")
    /\ UNCHANGED <<running, reading_thread, logging_thread, calls,
                   loopVars, alertVars, storeVars, did, sensorVars>>

\* self.running = True (622)
SetRunning ==
    /\ proc = "alive"
    /\ ctl.pc = "set_running"
    /\ running' = TRUE
    /\ ctl' = [ctl EXCEPT !.pc = "launch_reading"]
    /\ trace' = Append(trace, "running")
    /\ UNCHANGED <<database, reading_thread, logging_thread, proc, calls,
                   loopVars, alertVars, storeVars, did, sensorVars>>

\* the reading thread is created and started (624-625)
LaunchReading ==
    /\ proc = "alive"
    /\ ctl.pc = "launch_reading"
    /\ reading_thread' = FreshThread
    /\ rthr' = [rthr EXCEPT ![FreshThread].pc = "loop"]
    /\ ctl' = [ctl EXCEPT !.pc = "launch_logging"]
    /\ trace' = Append(trace, "launch_reading")
    /\ UNCHANGED <<running, database, logging_thread, proc, calls,
                   lthr, latest_reading, rows, alertVars, storeVars, did, sensorVars>>

\* the logging thread is created and started (627-630); start() then
\* stays in its keep-alive loop
LaunchLogging ==
    /\ proc = "alive"
    /\ ctl.pc = "launch_logging"
    /\ logging_thread' = reading_thread
    /\ lthr' = [lthr EXCEPT ![reading_thread].pc = "loop"]
    /\ ctl' = [ctl EXCEPT !.pc = "keepalive"]
    /\ trace' = Append(trace, "launch_logging")
    /\ UNCHANGED <<running, database, reading_thread, proc, calls,
                   rthr, latest_reading, rows, alertVars, storeVars, did, sensorVars>>

\* stop() is called (640-646)
StopCall ==
    /\ ApiIdle
    /\ calls < MaxApiCalls
    /\ calls' = calls + 1
    /\ IF StopIsNoop(running)
       THEN /\ ctl' = [ctl EXCEPT !.call = "stop_noop"]
            /\ trace' = <<>>
            /\ UNCHANGED running
       ELSE /\ running' = FALSE
            /\ ctl' = [pc |-> StopOrder[1], call |-> "stop"]
            /\ trace' = <<"clear_flag">>
    /\ UNCHANGED <<database, reading_thread, logging_thread, proc,
                   loopVars, alertVars, storeVars, did, sensorVars>>

\* lines 649-650: join the reading thread if it is alive
StopJoinReading ==
    /\ proc = "alive"
    /\ ctl.pc = "join_reading"
    /\ IF reading_thread # NoThread /\ IsAlive(rthr[reading_thread])
       THEN /\ ctl' = [ctl EXCEPT !.pc = "joining_reading"]
            /\ trace' = Append(trace, "join_reading")
       ELSE /\ ctl' = [ctl EXCEPT !.pc = StopNext("join_reading")]
            /\ UNCHANGED trace
    /\ UNCHANGED <<running, database, reading_thread, logging_thread, proc,
                   calls, loopVars, alertVars, storeVars, did, sensorVars>>

\* join(timeout=5) returns: the thread has ended, or the five seconds have
\* passed
JoinReadingReturns ==
    /\ proc = "alive"
    /\ ctl.pc = "joining_reading"
    /\ ctl' = [ctl EXCEPT !.pc = StopNext("join_reading")]
    /\ UNCHANGED <<running, database, reading_thread, logging_thread, proc,
                   calls, trace, loopVars, alertVars, storeVars, did, sensorVars>>

\* lines 652-653
StopJoinLogging ==
    /\ proc = "alive"
    /\ ctl.pc = "join_logging"
    /\ IF logging_thread # NoThread /\ IsAlive(lthr[logging_thread])
       THEN /\ ctl' = [ctl EXCEPT !.pc = "joining_logging"]
            /\ trace' = Append(trace, "join_logging")
       ELSE /\ ctl' = [ctl EXCEPT !.pc = StopNext("join_logging")]
            /\ UNCHANGED trace
    /\ UNCHANGED <<running, database, reading_thread, logging_thread, proc,
                   calls, loopVars, alertVars, storeVars, did, sensorVars>>

JoinLoggingReturns ==
    /\ proc = "alive"
    /\ ctl.pc = "joining_logging"
    /\ ctl' = [ctl EXCEPT !.pc = StopNext("join_logging")]
    /\ UNCHANGED <<running, database, reading_thread, logging_thread, proc,
                   calls, trace, loopVars, alertVars, storeVars, did, sensorVars>>

\* lines 656-657: self.sensor.cleanup()
StopCleanupSensor ==
    /\ proc = "alive"
    /\ ctl.pc = "cleanup"
    /\ IF sensor.type # "none"
       THEN /\ sensor' = [sensor EXCEPT !.cleanups = @ + 1]
            /\ trace' = Append(trace, "sensor_cleanup")
       ELSE UNCHANGED <<sensor, trace>>
    /\ ctl' = [ctl EXCEPT !.pc = StopNext("cleanup")]
    /\ UNCHANGED <<running, database, reading_thread, logging_thread, proc,
                   calls, loopVars, alertVars, storeVars, did, scall>>

\* lines 660-661: self.database.close(); stop() returns after its last
\* step (663)
StopCloseDatabase ==
    /\ proc = "alive"
    /\ ctl.pc = "close"
    /\ IF database.present
       THEN /\ database' = [database EXCEPT !.closes = @ + 1]
            /\ trace' = Append(trace, "db_close")
       ELSE UNCHANGED <<database, trace>>
    /\ ctl' = [ctl EXCEPT !.pc = StopNext("close")]
    /\ UNCHANGED <<running, reading_thread, logging_thread, proc,
                   calls, loopVars, alertVars, storeVars, did, sensorVars>>

\* where the model puts a device
Devices == {"station", "dry_room"}

\* self.sensor.read() (BaseSensor.read, base_sensor.py): what the call can
\* return, tabulated by the device, the driver and the retries
SensorRead ==
    [device \in Devices |->
       [type \in SensorTypes |->
          [attempts \in 1..DefaultMaxRetries |->
             ReadResultsOf(DeviceGives(device), type, attempts)]]]

ctlVars == <<running, database, reading_thread, logging_thread, ctl, proc,
             calls, trace>>

\* the states of the station a loop thread's step may change
dataVars == <<latest_reading, rows, database, last_rowid, sensor,
              last_alert_time, alert_log, played>>

\* what no step of a loop thread changes
loopFrame == <<running, reading_thread, logging_thread, ctl, proc, calls,
               trace, config, last_alert_lock, apc, aframe, ncalls, scall,
               store_call, reading_lock, calc_call>>

\* `except Exception` of _process_reading (442)
ProcessCatches(exc) == TRUE

LoopCatchesNothing(exc) == FALSE

\* `except Exception` of _reading_loop (562) and of _logging_loop (603)
LoopCatches(exc) == TRUE

LoopContinuesAlways(running_) == TRUE

\* `while self.running:` of the two loops (548, 573)
LoopContinues(running_) == running_

\* the thread enters _reading_loop: the first `while self.running:` (548)
ReaderLoop(i) ==
    /\ proc = "alive"
    /\ rthr[i].pc = "loop"
    /\ rthr' = [rthr EXCEPT ![i].pc = IF LoopContinues(running) THEN "read"
                                       ELSE "exited",
                            ![i].reading = NoReading]
    /\ did' = Cleared(did, "reader")
    /\ UNCHANGED <<lthr, now, loopFrame, dataVars>>

SamplingEndsWithoutSleep == "read"

\* where an iteration of the sampling loop ends, whatever it did: at the
\* time.sleep(reading_interval) of line 560 (of line 564 after an error)
SamplingEnds == "sleep"

ReadFailedNever(reading) == FALSE

\* the else branch of `if reading:` (553-557)
ReadFailed(reading) == reading = NoReading

\* what _process_reading raises inside its try block: reading[...] of None
\* is a TypeError (413), the logarithm of 0 a ValueError (181)
ProcessRaises(reading) ==
    IF reading = NoReading THEN "TypeError"
    ELSE IF DewPointRaises(reading.temperature, reading.humidity)
    THEN "ValueError"
    ELSE NoExc

\* reading = self.sensor.read() and the test of line 553
ReaderRead(i) ==
    /\ proc = "alive"
    /\ rthr[i].pc = "read"
    /\ \E res \in SensorRead[sensor.device][sensor.type][sensor.max_retries] :
          /\ sensor' = IF res = NoReading THEN sensor
                       ELSE [sensor EXCEPT !.last_reading = res]
          /\ rthr' = [rthr EXCEPT
                         ![i].reading = res,
                         ![i].pc = IF ReadFailed(res) THEN SamplingEnds
                                   ELSE "process"]
          /\ did' = Noted(Cleared(did, "reader"), "reader",
                          IF res = NoReading THEN <<"read_failed">>
                          ELSE <<"read_ok">>)
    /\ UNCHANGED <<lthr, now, loopFrame, latest_reading, rows, database,
                   last_rowid, last_alert_time, alert_log, played>>

\* _process_reading (403-443): the derived metrics, the snapshot, the
\* thresholds, the publication (best effort, 520-539); an error of the
\* calculation is caught at 442 and ends the processing; were it not, it
\* would reach the handler of the loop (562-564)
ProcessReading(i) ==
    /\ proc = "alive"
    /\ rthr[i].pc = "process"
    /\ IF ProcessRaises(rthr[i].reading) # NoExc
       THEN /\ rthr' = [rthr EXCEPT
                          ![i].reading = NoReading,
                          ![i].pc =
                              IF ProcessCatches(ProcessRaises(rthr[i].reading))
                                 \/ LoopCatches(ProcessRaises(rthr[i].reading))
                              THEN SamplingEnds ELSE "dead"]
            /\ did' = Noted(did, "reader",
                            IF ProcessCatches(ProcessRaises(rthr[i].reading))
                            THEN <<"compute_error", "error_logged">>
                            ELSE IF LoopCatches(ProcessRaises(rthr[i].reading))
                            THEN <<"compute_error", "raised",
                                   "loop_error_logged">>
                            ELSE <<"compute_error", "raised">>)
            /\ UNCHANGED <<latest_reading, last_alert_time, alert_log, played>>
       ELSE LET st == CheckThresholdsDone(
                         [last |-> last_alert_time, log |-> alert_log,
                          played |-> played],
                         rthr[i].reading.temperature,
                         rthr[i].reading.humidity)
            IN  /\ latest_reading' = Snapshot(rthr[i].reading, now)
                /\ last_alert_time' = st.last
                /\ alert_log' = st.log
                /\ played' = st.played
                /\ \E published \in BOOLEAN :
                      rthr' = [rthr EXCEPT ![i].pc = SamplingEnds,
                                           ![i].reading = NoReading]
                /\ did' = Noted(did, "reader",
                                <<"compute", "store", "check", "publish">>)
    /\ UNCHANGED <<lthr, now, loopFrame, rows, database, last_rowid, sensor>>

\* time.sleep(reading_interval) (560, or 564 after an error) returns and
\* the flag is tested again (548)
ReaderSleep(i) ==
    /\ proc = "alive"
    /\ rthr[i].pc = "sleep"
    /\ rthr' = [rthr EXCEPT ![i].pc = IF LoopContinues(running) THEN "read"
                                       ELSE "exited",
                            ![i].reading = NoReading]
    /\ did' = Noted(did, "reader", <<"sleep">>)
    /\ UNCHANGED <<lthr, now, loopFrame, dataVars>>

\* the thread enters _logging_loop: the first `while self.running:` (573)
LoggerLoop(i) ==
    /\ proc = "alive"
    /\ lthr[i].pc = "loop"
    /\ lthr' = [lthr EXCEPT ![i].pc = IF LoopContinues(running) THEN "sleep"
                                       ELSE "exited"]
    /\ did' = Cleared(did, "logger")
    /\ UNCHANGED <<rthr, now, loopFrame, dataVars>>

\* time.sleep(logging_interval) (575), then the snapshot is read under
\* the lock (578-579); the clock is left to the specification
LoggerFetchStep(i) ==
    /\ proc = "alive"
    /\ lthr[i].pc = "sleep"
    /\ lthr' = [lthr EXCEPT ![i].pc = "log", ![i].reading = latest_reading]
    /\ did' = Noted(Cleared(did, "logger"), "logger", <<"sleep", "fetch">>)
    /\ UNCHANGED <<rthr, loopFrame, dataVars>>

\* the sleep and the fetch at one reading of the clock
LoggerFetch(i) == LoggerFetchStep(i) /\ UNCHANGED now

SnapshotPresentNever(reading) == FALSE

\* `if reading:` (581)
SnapshotPresent(reading) == reading # NoSnapshot

\* the moment a row was written, read back from its timestamp text
WrittenAt(row) == row.timestamp[1] * SecondsPerDay + row.timestamp[3]

WritesCopyIfNew(reading, rows_) ==
    /\ SnapshotPresent(reading)
    /\ \/ rows_ = <<>>
       \/ reading.timestamp >= WrittenAt(rows_[Len(rows_)])

\* whether a cycle of the persistence loop calls log_reading: `if reading:`
\* (581) is the only test, neither the table nor an earlier cycle is
\* consulted
WritesCopy(reading, rows_) == SnapshotPresent(reading)

\* lines 581-601: database.log_reading if there is a snapshot; then,
\* inside the daily window, database.cleanup_old_data; an exception that
\* either lets out reaches the handler of the loop (603-604); then
\* the flag is tested again (573)
LoggerLog(i) ==
    /\ proc = "alive"
    /\ lthr[i].pc = "log"
    /\ \E o1 \in (IF WritesCopy(lthr[i].reading, rows)
                   THEN StoreOutcomes
                   ELSE {"ok"}),
          o2 \in (IF InCleanupWindow(now) THEN StoreOutcomes ELSE {"ok"}) :
          LET snap   == lthr[i].reading
              called == WritesCopy(snap, rows)
              r1 == IF called
                    THEN LogReading(rows, last_rowid, database.capacity,
                                    snap, now, o1)
                    ELSE [rows |-> rows, last_rowid |-> last_rowid,
                          ret |-> "none", raised |-> NoExc, did |-> <<>>]
              swept == r1.raised = NoExc /\ InCleanupWindow(now)
              r2 == IF swept
                    THEN CleanupOldData(r1.rows, now,
                                        database.retention_days, o2)
                    ELSE [rows |-> r1.rows, ret |-> 0, raised |-> NoExc,
                          did |-> <<>>]
              exc == IF r1.raised # NoExc THEN r1.raised ELSE r2.raised
          IN  /\ rows' = r2.rows
              /\ last_rowid' = r1.last_rowid
              /\ database' = IF swept
                             THEN [database EXCEPT !.cleanups = @ + 1]
                             ELSE database
              /\ lthr' = [lthr EXCEPT
                            ![i].reading = NoSnapshot,
                            ![i].pc = IF exc = NoExc \/ LoopCatches(exc)
                                      THEN (IF LoopContinues(running)
                                            THEN "sleep" ELSE "exited")
                                      ELSE "dead"]
              /\ did' = Noted(did, "logger",
                              r1.did \o r2.did \o
                              (IF exc # NoExc /\ LoopCatches(exc)
                               THEN <<"loop_error_logged">> ELSE <<>>))
    /\ UNCHANGED <<rthr, now, loopFrame, latest_reading, sensor,
                   last_alert_time, alert_log, played>>

Init ==
    /\ InitAlertIdle
    /\ InitSensorIdle
    /\ InitOrchIdle
    /\ config \in MainConfigs

Next ==
    \/ StartCall
    \/ InitializeSensor
    \/ InitializeDatabase
    \/ SetRunning
    \/ LaunchReading
    \/ LaunchLogging
    \/ StopCall
    \/ StopJoinReading
    \/ JoinReadingReturns
    \/ StopJoinLogging
    \/ JoinLoggingReturns
    \/ StopCleanupSensor
    \/ StopCloseDatabase
    \/ \E i \in ThreadIds : ReaderLoop(i)
    \/ \E i \in ThreadIds : ReaderRead(i)
    \/ \E i \in ThreadIds : ProcessReading(i)
    \/ \E i \in ThreadIds : ReaderSleep(i)
    \/ \E i \in ThreadIds : LoggerLoop(i)
    \/ \E i \in ThreadIds : LoggerFetch(i)
    \/ \E i \in ThreadIds : LoggerLog(i)

Spec == Init /\ [][Next]_vars

(***************************************************************************)
(* The running station, cycle by cycle.  start() has returned into its    *)
(* keep-alive loop; the two loops run, both observed, until stop() ends   *)
(* them (SpecCycle, the clock standing still), or through a night         *)
(* (SpecNight): there the clock is read at the end of each sleep of the   *)
(* logging loop, which is taken to last the configured interval and no    *)
(* longer.                                                                *)
(***************************************************************************)
MaxCycleMinutes == 10   \* minutes of the night explored per behaviour

\* 02:56 of the first day, in seconds
CycleStart == (2 * 60 + 56) * SecondsPerMinute
CycleEnd == CycleStart + MaxCycleMinutes * SecondsPerMinute

\* logging.log_interval_seconds as the configuration file can set it
CycleConfigs == {[DefaultConfig EXCEPT !.logging_seconds = s] :
                    s \in {60, 300, 600}}

\* the state start() leaves (606-637), with both loops observed, under
\* one of the configurations and with room for capacity rows
Cycling(configs, capacity) ==
    /\ config \in configs
    /\ now = CycleStart
    /\ last_alert_time = [k \in Kinds |-> NoTime]
    /\ last_alert_lock = NoCaller
    /\ reading_lock = NoCaller
    /\ calc_call = NoCalcCall
    /\ apc = [c \in Callers |-> "idle"]
    /\ aframe = [c \in Callers |-> IdleFrame]
    /\ ncalls = 0
    /\ alert_log = EmptyBag
    /\ played = EmptyBag
    /\ \E first \in SensorRead["dry_room"][config.sensor_type]
                               [DefaultMaxRetries] \ {NoReading} :
          sensor = [NewSensor(config.sensor_type, DefaultMaxRetries) EXCEPT
                       !.device = "dry_room", !.last_reading = first]
    /\ scall = [c \in SensorCallers |-> IdleCall]
    /\ running = TRUE
    /\ database = NewDatabase(config.retention_days, capacity)
    /\ rows = <<>>
    /\ latest_reading = NoSnapshot
    /\ reading_thread = 1
    /\ logging_thread = 1
    /\ rthr = [i \in ThreadIds |->
                 IF i = 1 THEN [UnbornThread EXCEPT !.pc = "loop"]
                 ELSE UnbornThread]
    /\ lthr = rthr
    /\ ctl = [pc |-> "keepalive", call |-> "start"]
    /\ proc = "alive"
    /\ calls = 1
    /\ trace = <<"sensor_ok", "db_ok", "running", "launch_reading",
                 "launch_logging">>
    /\ last_rowid = 0
    /\ store_call = NoStoreCall
    /\ did = [loop \in Loops |-> <<>>]

InitCycle == Cycling(CycleConfigs, MaxRows)

\* the sleep of the logging loop lasts the interval (575)
LoggerFetchTimed(i) ==
    /\ now + config.logging_seconds <= CycleEnd
    /\ LoggerFetchStep(i)
    /\ now' = now + config.logging_seconds

NextNight ==
    \/ \E i \in ThreadIds : ReaderLoop(i)
    \/ \E i \in ThreadIds : ReaderRead(i)
    \/ \E i \in ThreadIds : ProcessReading(i)
    \/ \E i \in ThreadIds : ReaderSleep(i)
    \/ \E i \in ThreadIds : LoggerLoop(i)
    \/ \E i \in ThreadIds : LoggerFetchTimed(i)
    \/ \E i \in ThreadIds : LoggerLog(i)

SpecNight == InitCycle /\ [][NextNight]_vars

\* the same night under the default configuration (a row every 300
\* seconds), with room in the store for one row more, so that two cycles
\* of the logging loop can both add theirs
InitResample == Cycling({DefaultConfig}, MaxRows + 1)

SpecResample == InitResample /\ [][NextNight]_vars

NextCycle ==
    \/ StopCall
    \/ StopJoinReading
    \/ JoinReadingReturns
    \/ StopJoinLogging
    \/ JoinLoggingReturns
    \/ StopCleanupSensor
    \/ StopCloseDatabase
    \/ \E i \in ThreadIds : ReaderLoop(i)
    \/ \E i \in ThreadIds : ReaderRead(i)
    \/ \E i \in ThreadIds : ProcessReading(i)
    \/ \E i \in ThreadIds : ReaderSleep(i)
    \/ \E i \in ThreadIds : LoggerLoop(i)
    \/ \E i \in ThreadIds : LoggerFetch(i)
    \/ \E i \in ThreadIds : LoggerLog(i)

SpecCycle == InitCycle /\ [][NextCycle]_vars

(***************************************************************************)
(* The store on its own: a ClimateDatabase object whose methods are       *)
(* called directly, over weeks of the clock.                              *)
(***************************************************************************)
MaxStoreRows     == 5   \* inserts explored per behaviour
MaxStoreCleanups == 2   \* cleanup calls explored per behaviour

\* the clock at hour:minute of a day
At(day, hour, minute) ==
    day * SecondsPerDay + (hour * 60 + minute) * SecondsPerMinute

\* the moments at which the store is called
StoreClock ==
    {At(0, 3, 2), At(9, 3, 2), At(10, 20, 0), At(11, 3, 2), At(30, 3, 2),
     At(39, 3, 2), At(40, 3, 2)}

\* the snapshots handed to log_reading
StoreSnapshots == {Snapshot([temperature |-> 225, humidity |-> 455], 0)}

\* ClimateDatabase(db_path, retention_days) on a new file (22-39), nothing
\* else of the module in use
InitStore ==
    /\ InitAlertIdle
    /\ InitSensorIdle
    /\ config = DefaultConfig
    /\ running = FALSE
    /\ database = NewDatabase(config.retention_days, MaxStoreRows)
    /\ rows = <<>>
    /\ latest_reading = NoSnapshot
    /\ reading_thread = NoThread
    /\ logging_thread = NoThread
    /\ rthr = [i \in ThreadIds |-> UnbornThread]
    /\ lthr = [i \in ThreadIds |-> UnbornThread]
    /\ ctl = [pc |-> "idle", call |-> "none"]
    /\ proc = "alive"
    /\ calls = 0
    /\ trace = <<>>
    /\ last_rowid = 0
    /\ store_call = NoStoreCall
    /\ did = Unobserved

\* what a call of the store leaves alone
storeFrame == <<config, last_alert_time, last_alert_lock, reading_lock,
                calc_call, apc, aframe,
                ncalls, alert_log, played, sensorVars, running,
                latest_reading, reading_thread, logging_thread, rthr, lthr,
                ctl, proc, calls, trace, did>>

\* time passes between two calls
StoreTick ==
    /\ \E t \in StoreClock : t > now /\ now' = t
    /\ UNCHANGED <<storeFrame, database, rows, storeVars>>

\* a call of log_reading (74-104)
StoreLogReading ==
    /\ last_rowid < MaxStoreRows
    /\ \E snap \in StoreSnapshots, outcome \in StoreOutcomes :
          LET r == LogReading(rows, last_rowid, database.capacity, snap,
                              now, outcome)
          IN  /\ rows' = r.rows
              /\ last_rowid' = r.last_rowid
              /\ store_call' = StoreCall("log_reading", now, r, store_call)
    /\ UNCHANGED <<storeFrame, database, now>>

\* a call of cleanup_old_data (230-256)
StoreCleanup ==
    /\ database.cleanups < MaxStoreCleanups
    /\ \E outcome \in StoreOutcomes :
          LET r == CleanupOldData(rows, now, database.retention_days,
                                  outcome)
          IN  /\ rows' = r.rows
              /\ store_call' = StoreCall("cleanup_old_data", now, r,
                                          store_call)
    /\ database' = [database EXCEPT !.cleanups = @ + 1]
    /\ UNCHANGED <<storeFrame, last_rowid, now>>

NextStore ==
    \/ StoreTick
    \/ StoreLogReading
    \/ StoreCleanup

SpecStore == InitStore /\ [][NextStore]_vars

\* ---------------------------------------------------------------------
\* The queries of the store

\* the order of idx_timestamp (climate_db.py 62-65): by timestamp text,
\* rows of one timestamp by rowid; the three queries walk this index
IndexBefore(a, b) ==
    \/ TextLess(a.timestamp, b.timestamp)
    \/ a.timestamp = b.timestamp /\ a.id < b.id

\* ORDER BY timestamp DESC, read backwards from the index
RECURSIVE NewestFirst(_)
NewestFirst(rows_) ==
    IF rows_ = <<>> THEN <<>>
    ELSE LET k == CHOOSE k \in 1..Len(rows_) :
                     \A j \in 1..Len(rows_) :
                        j = k \/ IndexBefore(rows_[j], rows_[k])
         IN  <<rows_[k]>> \o NewestFirst(SubSeq(rows_, 1, k - 1)
                                \o SubSeq(rows_, k + 1, Len(rows_)))

\* the first of the ties in place of the last
GetOldestOfLatest(rows_, outcome) ==
    LET newest == NewestFirst(rows_)
        ties   == SelectSeq(newest,
                     LAMBDA r : r.timestamp = newest[1].timestamp)
    IN  [ret |-> IF rows_ = <<>> THEN Absent ELSE <<ties[Len(ties)]>>,
         raised |-> NoExc, did |-> <<"get_latest_reading">>]

\* ClimateDatabase.get_latest_reading (climate_db.py 106-130)
GetLatestReading(rows_, outcome) ==
    IF outcome = "ok"
    THEN [ret |-> IF rows_ = <<>> THEN Absent
                  ELSE <<NewestFirst(rows_)[1]>>,
          raised |-> NoExc, did |-> <<"get_latest_reading">>]
    ELSE LET f == StoreFailure(rows_, 0, outcome, Absent)
         IN  [ret |-> f.ret, raised |-> f.raised,
              did |-> <<"get_latest_reading">> \o f.did]

\* `timestamp BETWEEN ? AND ?` with start_time.isoformat() and
\* end_time.isoformat() (climate_db.py 155-160): texts compared
Between(row, start_time, end_time) ==
    /\ ~TextLess(row.timestamp, IsoFormat(start_time))
    /\ ~TextLess(IsoFormat(end_time), row.timestamp)

\* the defaults of get_historical_data (147-150)
DefaultStart(start_time, now_) ==
    IF start_time = Absent THEN now_ - SecondsPerDay ELSE start_time[1]
DefaultEnd(end_time, now_) ==
    IF end_time = Absent THEN now_ ELSE end_time[1]

\* ClimateDatabase.get_historical_data (climate_db.py 132-167)
GetHistoricalData(rows_, start_time, end_time, limit, now_, outcome) ==
    IF outcome = "ok"
    THEN LET found == SelectSeq(NewestFirst(rows_),
                         LAMBDA r : Between(r,
                                       DefaultStart(start_time, now_),
                                       DefaultEnd(end_time, now_)))
         IN  [ret |-> SubSeq(found, 1,
                             IF limit < Len(found) THEN limit
                             ELSE Len(found)),
              raised |-> NoExc, did |-> <<"get_historical_data">>]
    ELSE LET f == StoreFailure(rows_, 0, outcome, <<>>)
         IN  [ret |-> f.ret, raised |-> f.raised,
              did |-> <<"get_historical_data">> \o f.did]

\* the start of the period of get_statistics (178-186)
PeriodDays(period) ==
    IF period = "week" THEN 7 ELSE IF period = "month" THEN 30 ELSE 1

RECURSIVE Total(_)
Total(values) ==
    IF values = <<>> THEN 0 ELSE Head(values) + Total(Tail(values))

Least(values) ==
    CHOOSE v \in {values[k] : k \in 1..Len(values)} :
        \A k \in 1..Len(values) : v <= values[k]
Greatest(values) ==
    CHOOSE v \in {values[k] : k \in 1..Len(values)} :
        \A k \in 1..Len(values) : v >= values[k]

\* round(total / count, 1) of values kept in tenths: the nearest tenth;
\* a quotient half way between two tenths goes where its binary
\* floating-point value lies, which `tie` decides
RoundedMean(total, count, tie) ==
    LET twice == 2 * total + count
        q     == twice \div (2 * count)
    IN  IF twice % (2 * count) = 0 /\ tie = "down" THEN q - 1 ELSE q

\* `round(row[i], 1) if row[i] else None` (208-215)
RoundedOrNone(raw, rounded) == IF raw = 0 THEN Absent ELSE <<rounded>>

\* MIN, MAX and AVG of a column as get_statistics returns them
ColumnStatistics(values, tie) ==
    [min |-> RoundedOrNone(Least(values), Least(values)),
     max |-> RoundedOrNone(Greatest(values), Greatest(values)),
     avg |-> RoundedOrNone(Total(values),
                           RoundedMean(Total(values), Len(values), tie))]

\* ClimateDatabase.get_statistics (climate_db.py 169-228)
GetStatistics(rows_, period, now_, tie, outcome) ==
    IF outcome = "ok"
    THEN LET start_time == now_ - PeriodDays(period) * SecondsPerDay
             found == SelectSeq(rows_, LAMBDA r :
                         ~TextLess(r.timestamp, IsoFormat(start_time)))
             temps == [k \in 1..Len(found) |-> found[k].temperature_c]
             hums  == [k \in 1..Len(found) |-> found[k].humidity]
         IN  [ret |-> IF Len(found) = 0 THEN Absent
                      ELSE <<[period        |-> period,
                              start_time    |-> IsoFormat(start_time),
                              end_time      |-> IsoFormat(now_),
                              temperature   |-> ColumnStatistics(temps, tie),
                              humidity      |-> ColumnStatistics(hums, tie),
                              reading_count |-> Len(found)]>>,
              raised |-> NoExc, did |-> <<"get_statistics">>]
    ELSE LET f == StoreFailure(rows_, 0, outcome, Absent)
         IN  [ret |-> f.ret, raised |-> f.raised,
              did |-> <<"get_statistics">> \o f.did]

\* ClimateDatabase.export_to_json (climate_db.py 258-282): the records of
\* the range are read and written to a file; `except Exception` catches
\* whatever the query or the file raises
ExportToJson(rows_, start_time, end_time, now_, outcome, file_ok) ==
    LET data == GetHistoricalData(rows_, start_time, end_time, 100000,
                                  now_, outcome)
    IN  [ret |-> data.raised = NoExc /\ file_ok, raised |-> NoExc,
         did |-> <<"export_to_json">>]

MaxQueryRows     == 2   \* inserts explored per behaviour
MaxQueryCleanups == 1   \* cleanup calls explored per behaviour

\* a direct call of a store method together with its arguments
QueryCall(op, at, args, result) ==
    [op |-> op, at |-> at, ret |-> result.ret, raised |-> result.raised,
     did |-> result.did, again |-> FALSE, args |-> args]

\* the moments at which the store is called and asked about
QueryClock == {At(10, 20, 0), At(11, 3, 2)}

\* the shortest retention the store can be made with
ShortRetention == 1

\* what log_reading is called with: a mild room with its dew point, and a
\* room at the freezing point without the optional values
QuerySnapshots ==
    {Snapshot([temperature |-> 225, humidity |-> 455], 0)
        @@ [dew_point_c |-> <<101>>, heat_index_c |-> Absent],
     Snapshot([temperature |-> 0, humidity |-> 300], 0)}

\* ClimateDatabase(db_path, retention_days=1) on a new file (22-39)
InitQuery ==
    /\ InitAlertIdle
    /\ InitSensorIdle
    /\ config = DefaultConfig
    /\ running = FALSE
    /\ database = NewDatabase(ShortRetention, MaxQueryRows)
    /\ rows = <<>>
    /\ latest_reading = NoSnapshot
    /\ reading_thread = NoThread
    /\ logging_thread = NoThread
    /\ rthr = [i \in ThreadIds |-> UnbornThread]
    /\ lthr = [i \in ThreadIds |-> UnbornThread]
    /\ ctl = [pc |-> "idle", call |-> "none"]
    /\ proc = "alive"
    /\ calls = 0
    /\ trace = <<>>
    /\ last_rowid = 0
    /\ store_call = NoStoreCall
    /\ did = Unobserved

\* time passes; the call made before it is no longer looked at
QueryTick ==
    /\ \E t \in QueryClock : t > now /\ now' = t
    /\ store_call' = NoStoreCall
    /\ UNCHANGED <<storeFrame, database, rows, last_rowid>>

\* a call of log_reading (74-104)
QueryLogReading ==
    /\ last_rowid < MaxQueryRows
    /\ \E snap \in QuerySnapshots, outcome \in StoreOutcomes :
          LET r == LogReading(rows, last_rowid, database.capacity, snap,
                              now, outcome)
          IN  /\ rows' = r.rows
              /\ last_rowid' = r.last_rowid
              /\ store_call' = QueryCall("log_reading", now, snap, r)
    /\ UNCHANGED <<storeFrame, database, now>>

\* a call of cleanup_old_data (230-256)
QueryCleanup ==
    /\ database.cleanups < MaxQueryCleanups
    /\ \E outcome \in StoreOutcomes :
          LET r == CleanupOldData(rows, now, database.retention_days,
                                  outcome)
          IN  /\ rows' = r.rows
              /\ store_call' = QueryCall("cleanup_old_data", now, <<>>, r)
    /\ database' = [database EXCEPT !.cleanups = @ + 1]
    /\ UNCHANGED <<storeFrame, last_rowid, now>>

\* a call of get_latest_reading (106-130)
QueryLatest ==
    /\ \E outcome \in StoreOutcomes :
          store_call' = QueryCall("get_latest_reading", now, <<>>,
                                  GetLatestReading(rows, outcome))
    /\ UNCHANGED <<storeFrame, database, rows, last_rowid, now>>

\* a call of get_historical_data (132-167)
QueryHistorical ==
    /\ \E start_time \in {Absent, <<At(10, 3, 2)>>},
          end_time \in {Absent, <<At(11, 3, 2)>>},
          limit \in {1, 1000}, outcome \in StoreOutcomes :
          store_call' =
             QueryCall("get_historical_data", now,
                       [start_time |-> DefaultStart(start_time, now),
                        end_time |-> DefaultEnd(end_time, now),
                        limit |-> limit],
                       GetHistoricalData(rows, start_time, end_time, limit,
                                         now, outcome))
    /\ UNCHANGED <<storeFrame, database, rows, last_rowid, now>>

\* a call of get_statistics (169-228)
QueryStatistics ==
    /\ \E period \in {"day", "week", "month", "year"},
          tie \in {"down", "up"}, outcome \in StoreOutcomes :
          store_call' =
             QueryCall("get_statistics", now, [period |-> period],
                       GetStatistics(rows, period, now, tie, outcome))
    /\ UNCHANGED <<storeFrame, database, rows, last_rowid, now>>

\* a call of export_to_json (258-282)
QueryExport ==
    /\ \E outcome \in StoreOutcomes, file_ok \in BOOLEAN :
          store_call' =
             QueryCall("export_to_json", now, <<>>,
                       ExportToJson(rows, Absent, Absent, now, outcome,
                                    file_ok))
    /\ UNCHANGED <<storeFrame, database, rows, last_rowid, now>>

NextQuery ==
    \/ QueryTick
    \/ QueryLogReading
    \/ QueryCleanup
    \/ QueryLatest
    \/ QueryHistorical
    \/ QueryStatistics
    \/ QueryExport

SpecQuery == InitQuery /\ [][NextQuery]_vars

(***************************************************************************)
(* ClimateCalculations (climate_module.py 150-264), each function called  *)
(* on its own.  Temperatures are in tenths of a degree Celsius or in       *)
(* hundredths of a degree Fahrenheit, humidities in tenths of a percent.   *)
(* The floating-point arithmetic of the code is done in fixed point on     *)
(* integers of 32 bits; the results agree with the code's to the tenth,    *)
(* except next to a rounding tie, where they can differ by one tenth.      *)
(***************************************************************************)

\* x * c / 10^k for x, c >= 0 and 4 <= k <= 8, the product taken in two
\* halves so that no intermediate value leaves 32 bits
MulPow(x, c, k) ==
    LET xh == x \div 10000
        xl == x % 10000
        ch == c \div 10000
        cl == c % 10000
    IN  (xh * ch) * 10^(8 - k)
        + (xh * cl + xl * ch) \div 10^(k - 4)
        + (xl * cl) \div 10^k

\* the nearest integer to n / d, d > 0
RoundDiv(n, d) == (2 * n + d) \div (2 * d)

\* hi_f of calculate_heat_index (208-224) in 1e-4 degrees F, from temp_f
\* in hundredths and the humidity in tenths; the coefficients c2..c9 are
\* written in units of 1e-8, c1 in units of 1e-4
HeatIndexF(temp_f, humidity) ==
    LET g   == temp_f * temp_f
        gh  == g \div 10000
        gl  == g % 10000
        hh  == humidity * humidity
        kh  == hh \div 100
        kl  == hh % 100
        \* the powers of temp_f and humidity, in 1e-4, 1e-2 and units
        F4    == temp_f * 100
        H4    == humidity * 1000
        FH4   == temp_f * humidity * 10
        FF4   == g
        HH4   == hh * 100
        FFH2  == (gh * humidity) * 10 + (gl * humidity) \div 1000
        FHH2  == temp_f * kh + (temp_f * kl) \div 100
        FFHH0 == gh * kh + (gh * kl) \div 100 + (gl * kh) \div 10000
    IN  (0 - 423790)
        + MulPow(F4, 204901523, 8)
        + MulPow(H4, 1014333127, 8)
        - MulPow(FH4, 22475541, 8)
        - MulPow(FF4, 683783, 8)
        - MulPow(HH4, 5481717, 8)
        + MulPow(FFH2, 122874, 6)
        + MulPow(FHH2, 85282, 6)
        - MulPow(FFHH0, 199, 4)

HeatIndexBelowOnly(temp_f) == temp_f <= 8000

\* `if temp_f < 80: return None` (205-206)
HeatIndexNotApplicable(temp_f) == temp_f < 8000

\* calculate_heat_index (189-229) after its first line, temp_f given in
\* hundredths: None, or round(fahrenheit_to_celsius(hi_f), 1) in tenths
HeatIndexOf(temp_f, humidity) ==
    IF HeatIndexNotApplicable(temp_f) THEN Absent
    ELSE <<RoundDiv((HeatIndexF(temp_f, humidity) - 320000) * 5, 9000)>>

\* calculate_heat_index(temperature_c, humidity) (189-229)
CalculateHeatIndex(temperature_c, humidity) ==
    HeatIndexOf(CelsiusToFahrenheit(temperature_c), humidity)

\* the greatest power of 2 that is not above n, and its exponent
RECURSIVE PowerOfTwoIn(_, _)
PowerOfTwoIn(n, p) == IF 2 * p <= n THEN PowerOfTwoIn(n, 2 * p) ELSE p
RECURSIVE ExponentOf(_)
ExponentOf(p) == IF p <= 1 THEN 0 ELSE 1 + ExponentOf(p \div 2)

\* y + y^3/3 + ... + y^13/13 in 1e-6, term = y^n and y2 = y^2 in 1e-6
RECURSIVE ArtanhSeries(_, _, _)
ArtanhSeries(term, y2, n) ==
    IF n > 13 THEN 0
    ELSE term \div n + ArtanhSeries(MulPow(term, y2, 6), y2, n + 2)

\* math.log(humidity / 100.0) (181) in 1e-6, for a humidity of 0.1 to 100
\* percent given in tenths: humidity = m * 2^k with 1 <= m < 2,
\* ln m = 2 artanh((m - 1) / (m + 1)), ln 2 = 0.693147, ln 1000 = 6.907755
LogOfHumidity(humidity) ==
    LET p  == PowerOfTwoIn(humidity, 1)
        y  == ((humidity - p) * 1000000) \div (humidity + p)
    IN  2 * ArtanhSeries(y, MulPow(y, y, 6), 1)
        + ExponentOf(p) * 693147 - 6907755

DewPointOfInverseRatio(temperature_c, humidity) ==
    LET at    == (1727 * temperature_c * 1000) \div (2377 + temperature_c)
        alpha == (at * 10 - LogOfHumidity(humidity)) \div 100
    IN  RoundDiv(2377 * alpha, 172700 - alpha)

\* calculate_dew_point (165-186) for a humidity above 0, in tenths: the
\* Magnus formula with a = 17.27 and b = 237.7
DewPointOf(temperature_c, humidity) ==
    LET at    == (1727 * temperature_c * 1000) \div (2377 + temperature_c)
        alpha == (at * 10 + LogOfHumidity(humidity)) \div 100
    IN  RoundDiv(2377 * alpha, 172700 - alpha)

\* calculate_dew_point (165-186): what it returns, or what it raises
CalculateDewPoint(temperature_c, humidity) ==
    IF DewPointRaises(temperature_c, humidity)
    THEN [ret |-> <<>>, raised |-> "ValueError"]
    ELSE [ret |-> <<DewPointOf(temperature_c, humidity)>>, raised |-> NoExc]

\* sep.join(parts) of a list that is not empty
RECURSIVE JoinWith(_, _)
JoinWith(sep, parts) ==
    IF Len(parts) = 1 THEN parts[1]
    ELSE parts[1] \o sep \o JoinWith(sep, Tail(parts))

\* the text calculate_comfort_level returns (258-264)
CalculateComfortLevel(temperature_c, humidity) ==
    JoinWith("_and_", ComfortLevel(temperature_c, humidity))

\* the temperatures and humidities the functions are called with: the
\* ends of the sensors' ranges, the thresholds and their neighbours
CalcTemperatures ==
    {-400, -1, 0, 179, 180, 181, 225, 259, 260, 261, 266, 267, 270, 280,
     283, 300, 350, 400, 500, 600, 700, 800, 850}
CalcHumidities ==
    {0, 1, 10, 100, 200, 299, 300, 301, 400, 452, 453, 460, 499, 500, 501,
     599, 600, 601, 650, 700, 800, 900, 999, 1000}

\* temp_f of the temperatures above, and 80 degrees F itself, which is the
\* temp_f of 80/3 degrees C
CalcFahrenheits ==
    {CelsiusToFahrenheit(t) : t \in CalcTemperatures} \cup {8000}

\* what a call of a calculator function leaves alone
calcFrame == <<config, now, last_alert_time, last_alert_lock, reading_lock,
               apc, aframe, ncalls, alert_log, played, sensorVars, orchVars,
               storeVars, did>>

\* nothing of the module is in use
InitCalc ==
    /\ InitAlertIdle
    /\ InitSensorIdle
    /\ InitOrchIdle
    /\ config = DefaultConfig

\* a call of celsius_to_fahrenheit (155-157)
CallCelsiusToFahrenheit ==
    /\ calc_call = NoCalcCall
    /\ \E t \in CalcTemperatures :
          calc_call' = [fn |-> "celsius_to_fahrenheit",
                        args |-> [celsius |-> t],
                        ret |-> <<CelsiusToFahrenheit(t)>>,
                        raised |-> NoExc]
    /\ UNCHANGED calcFrame

\* a call of calculate_dew_point (165-186)
CallDewPoint ==
    /\ calc_call = NoCalcCall
    /\ \E t \in CalcTemperatures, h \in CalcHumidities :
          LET r == CalculateDewPoint(t, h)
          IN  calc_call' = [fn |-> "calculate_dew_point",
                            args |-> [temperature_c |-> t, humidity |-> h],
                            ret |-> r.ret, raised |-> r.raised]
    /\ UNCHANGED calcFrame

\* a call of calculate_heat_index (189-229); the temperature is kept as
\* the temp_f the function makes of it
CallHeatIndex ==
    /\ calc_call = NoCalcCall
    /\ \E f \in CalcFahrenheits, h \in CalcHumidities :
          calc_call' = [fn |-> "calculate_heat_index",
                        args |-> [temp_f |-> f, humidity |-> h],
                        ret |-> HeatIndexOf(f, h), raised |-> NoExc]
    /\ UNCHANGED calcFrame

\* a call of calculate_comfort_level (232-264)
CallComfortLevel ==
    /\ calc_call = NoCalcCall
    /\ \E t \in CalcTemperatures, h \in CalcHumidities :
          calc_call' = [fn |-> "calculate_comfort_level",
                        args |-> [temperature_c |-> t, humidity |-> h],
                        ret |-> <<CalculateComfortLevel(t, h)>>,
                        raised |-> NoExc]
    /\ UNCHANGED calcFrame

\* the caller has taken the result
CalcReturn ==
    /\ calc_call # NoCalcCall
    /\ calc_call' = NoCalcCall
    /\ UNCHANGED calcFrame

NextCalc ==
    \/ CalcReturn
    \/ CallCelsiusToFahrenheit
    \/ CallDewPoint
    \/ CallHeatIndex
    \/ CallComfortLevel

SpecCalc == InitCalc /\ [][NextCalc]_vars

(***************************************************************************)
(* Two calls side by side: calculate_comfort_level under two              *)
(* configurations of the alert thresholds, and _check_thresholds with two  *)
(* values of its comfort_level argument.                                   *)
(***************************************************************************)
ComfortLevelByAlertThresholds(cfg, temperature_c, humidity) ==
    LET kinds == SelectSeq(<<TempAlert(cfg, temperature_c),
                             HumidityAlert(cfg, humidity)>>,
                           LAMBDA k : k # NoKind)
    IN  JoinWith("_and_", IF kinds = <<>> THEN <<"comfortable">> ELSE kinds)

\* calculate_comfort_level in a module configured by cfg: a static method
\* that compares with its own constants (245-256) and reads no
\* configuration
ComfortLevelUnder(cfg, temperature_c, humidity) ==
    CalculateComfortLevel(temperature_c, humidity)

\* the kinds _check_thresholds calls _trigger_alert with, in order
\* (445-469); comfort_level is a parameter the function never reads
AlertsTriggered(cfg, temperature_c, humidity, comfort_level) ==
    IF ~AlertsEnabled(cfg) THEN <<>>
    ELSE SelectSeq(<<TempAlert(cfg, temperature_c),
                     HumidityAlert(cfg, humidity)>>,
                   LAMBDA k : k # NoKind)

\* readings around the comfort bounds and the alert thresholds
PairReadings ==
    {149, 150, 179, 180, 260, 261, 300, 301}
        \X {299, 300, 301, 600, 601, 700, 701}

\* the configurations compared
PairConfigs == {cfg \in Configs : cfg.cooldown_minutes = 1}

\* every value calculate_comfort_level can return
ComfortValues ==
    {CalculateComfortLevel(r[1], r[2]) : r \in PairReadings}

\* calculate_comfort_level(t, h) in two modules configured differently
CallComfortLevelTwice ==
    /\ calc_call = NoCalcCall
    /\ \E r \in PairReadings, cfg1 \in PairConfigs, cfg2 \in PairConfigs :
          calc_call' = [fn |-> "calculate_comfort_level",
                        args |-> [temperature_c |-> r[1], humidity |-> r[2],
                                  configs |-> <<cfg1, cfg2>>],
                        ret |-> <<ComfortLevelUnder(cfg1, r[1], r[2]),
                                  ComfortLevelUnder(cfg2, r[1], r[2])>>,
                        raised |-> NoExc]
    /\ UNCHANGED calcFrame

\* _check_thresholds(t, h, comfort_level) with two comfort levels
CallCheckThresholdsTwice ==
    /\ calc_call = NoCalcCall
    /\ \E r \in PairReadings, cfg \in PairConfigs,
          level1 \in ComfortValues, level2 \in ComfortValues :
          calc_call' = [fn |-> "_check_thresholds",
                        args |-> [temperature_c |-> r[1], humidity |-> r[2],
                                  config |-> cfg,
                                  comfort_levels |-> <<level1, level2>>],
                        ret |-> <<AlertsTriggered(cfg, r[1], r[2], level1),
                                  AlertsTriggered(cfg, r[1], r[2], level2)>>,
                        raised |-> NoExc]
    /\ UNCHANGED calcFrame

NextPairs ==
    \/ CalcReturn
    \/ CallComfortLevelTwice
    \/ CallCheckThresholdsTwice

SpecPairs == InitCalc /\ [][NextPairs]_vars

(***************************************************************************)
(* The two mutexes: the loops of one run of the module step by step where *)
(* they take and give back reading_lock and last_alert_lock, next to a    *)
(* stop() call.  The sampling thread i runs _check_thresholds as caller i.*)
(***************************************************************************)

\* what identifies a thread as the holder of a lock
ThreadIdent(loop, i) ==
    IF loop = "reader" THEN i ELSE Cardinality(ThreadIds) + i

\* what a step of the loops between two lock operations leaves alone
lockCore == <<running, reading_thread, logging_thread, ctl, proc, calls,
              trace, config, ncalls, scall, store_call, now, rows,
              database, last_rowid, sensor, calc_call>>
lockFrame == <<lockCore, did>>

SnapshotLockKept(holder) == holder

\* the end of a `with self.reading_lock:` block (422-431, 578-579)
SnapshotLockReleased(holder) == NoCaller

\* the derived metrics of _process_reading (413-419), before any lock is
\* taken; an error of the calculation is caught at 442
ProcessCompute(i) ==
    /\ proc = "alive"
    /\ rthr[i].pc = "process"
    /\ rthr' = [rthr EXCEPT ![i].pc =
                   IF ProcessRaises(rthr[i].reading) # NoExc
                   THEN SamplingEnds ELSE "snapshot_lock"]
    /\ UNCHANGED <<lthr, lockFrame, latest_reading, last_alert_lock,
                   reading_lock, last_alert_time, alert_log, played, apc,
                   aframe>>

\* `with self.reading_lock:` of line 422 is entered
SnapshotAcquire(i) ==
    /\ proc = "alive"
    /\ rthr[i].pc = "snapshot_lock"
    /\ CanAcquire(reading_lock)
    /\ reading_lock' = ThreadIdent("reader", i)
    /\ rthr' = [rthr EXCEPT ![i].pc = "snapshot_store"]
    /\ UNCHANGED <<lthr, lockFrame, latest_reading, last_alert_lock,
                   last_alert_time, alert_log, played, apc, aframe>>

\* dew_point and heat_index as _process_reading computed them (417-418)
\* from the temperatures and the humidity the dictionary holds
\* (tabulated over the readings the devices give)
DerivedMetrics ==
    LET readings == UNION {SensorRead[d][t][DefaultMaxRetries] :
                              d \in Devices, t \in SensorTypes} \ {NoReading}
    IN  [p \in {<<r.temperature, r.humidity>> : r \in readings} |->
           [dew_point_c  |-> CalculateDewPoint(p[1], p[2]).ret,
            heat_index_c |-> CalculateHeatIndex(p[1], p[2])]]

WithMetrics(snap) ==
    DerivedMetrics[<<snap.temperature_c, snap.humidity>>] @@ snap

SnapshotOfTwoCycles(reading, previous, timestamp) ==
    IF previous = NoSnapshot
    THEN WithMetrics(Snapshot(reading, timestamp))
    ELSE [previous EXCEPT !.timestamp = timestamp,
                          !.temperature_c = reading.temperature]

\* the dictionary of lines 423-431, built from the locals of this call of
\* _process_reading alone, whatever self.latest_reading held
SnapshotOfCycle(reading, previous, timestamp) ==
    WithMetrics(Snapshot(reading, timestamp))

\* lines 423-431: the snapshot is replaced and the block is left
SnapshotStore(i) ==
    /\ proc = "alive"
    /\ rthr[i].pc = "snapshot_store"
    /\ latest_reading' = SnapshotOfCycle(rthr[i].reading, latest_reading, now)
    /\ reading_lock' = SnapshotLockReleased(reading_lock)
    /\ rthr' = [rthr EXCEPT ![i].pc = "check"]
    /\ UNCHANGED <<lthr, lockFrame, last_alert_lock, last_alert_time,
                   alert_log, played, apc, aframe>>

\* line 437: _check_thresholds is called with the reading (445-464)
ReaderCheck(i) ==
    /\ proc = "alive"
    /\ rthr[i].pc = "check"
    /\ apc[i] = "idle"
    /\ LET frame == [IdleFrame EXCEPT !.t = rthr[i].reading.temperature,
                                      !.h = rthr[i].reading.humidity]
       IN  IF AlertsEnabled(config)
           THEN Branch(i, frame, TempAlert(config, frame.t), "hum")
           ELSE /\ apc' = [apc EXCEPT ![i] = "ret"]
                /\ aframe' = [aframe EXCEPT ![i] = frame]
    /\ rthr' = [rthr EXCEPT ![i].pc = "checking"]
    /\ UNCHANGED <<lthr, lockFrame, latest_reading, last_alert_lock,
                   reading_lock, last_alert_time, alert_log, played>>

\* _check_thresholds has returned; line 440: _publish_to_mqtt is called
ReaderChecked(i) ==
    /\ proc = "alive"
    /\ rthr[i].pc = "checking"
    /\ apc[i] = "ret"
    /\ apc' = [apc EXCEPT ![i] = "idle"]
    /\ aframe' = [aframe EXCEPT ![i] = IdleFrame]
    /\ rthr' = [rthr EXCEPT ![i].pc = "publish"]
    /\ UNCHANGED <<lthr, lockFrame, latest_reading, last_alert_lock,
                   reading_lock, last_alert_time, alert_log, played>>

\* what _publish_to_mqtt can meet (523-535): both values are published
\* (luigi-publish may fail, check=False), luigi-publish is still running
\* after 5 s, luigi-publish cannot be started
PublishOutcomes == {"published", "timeout", "error"}

\* what subprocess.run raises into the try block of _publish_to_mqtt
PublishRaises(outcome) ==
    CASE outcome = "timeout" -> "TimeoutExpired"
      [] outcome = "error"   -> "OSError"
      [] OTHER               -> NoExc

\* `except Exception` of _publish_to_mqtt (537)
PublishCatches(exc) == TRUE

\* _publish_to_mqtt (520-539) returns, whatever the publisher did; an
\* exception that were not caught there would reach the handler of
\* _process_reading (442), then that of the loop (562)
ReaderPublish(i) ==
    /\ proc = "alive"
    /\ rthr[i].pc = "publish"
    /\ \E outcome \in PublishOutcomes :
          LET exc == PublishRaises(outcome) IN
          /\ rthr' = [rthr EXCEPT
                         ![i].pc = IF exc = NoExc \/ PublishCatches(exc)
                                      \/ ProcessCatches(exc)
                                      \/ LoopCatches(exc)
                                   THEN SamplingEnds ELSE "dead",
                         ![i].reading = NoReading]
          /\ did' = Noted(did, "reader",
                          IF exc = NoExc \/ PublishCatches(exc)
                          THEN <<"publish_" \o outcome>>
                          ELSE <<"publish_" \o outcome, "raised">>)
    /\ UNCHANGED <<lthr, lockCore, latest_reading, last_alert_lock,
                   reading_lock, last_alert_time, alert_log, played, apc,
                   aframe>>

\* time.sleep(logging_interval) (575) returns and `with self.reading_lock:`
\* of line 578 is entered
LoggerAcquire(i) ==
    /\ proc = "alive"
    /\ lthr[i].pc = "sleep"
    /\ CanAcquire(reading_lock)
    /\ reading_lock' = ThreadIdent("logger", i)
    /\ lthr' = [lthr EXCEPT ![i].pc = "fetch"]
    /\ UNCHANGED <<rthr, lockFrame, latest_reading, last_alert_lock,
                   last_alert_time, alert_log, played, apc, aframe>>

\* line 579: the snapshot is read and the block is left
LoggerRead(i) ==
    /\ proc = "alive"
    /\ lthr[i].pc = "fetch"
    /\ lthr' = [lthr EXCEPT ![i].pc = "log", ![i].reading = latest_reading]
    /\ reading_lock' = SnapshotLockReleased(reading_lock)
    /\ UNCHANGED <<rthr, lockFrame, latest_reading, last_alert_lock,
                   last_alert_time, alert_log, played, apc, aframe>>

\* the configurations under which both chains of _check_thresholds alert
\* on the reading of 85.0 degrees and 45.5 percent
LockConfigs ==
    {[DefaultConfig EXCEPT !.sensor_type = "bme280", !.audio_enabled = a,
                           !.hum = h] :
        a \in BOOLEAN, h \in {<<30, 70>>, <<50, 70>>}}

\* the state start() leaves (606-637), under one of the configurations
\* and with the history given
Started(configs, history) ==
    /\ config \in configs
    /\ now = CycleStart
    /\ last_alert_time = [k \in Kinds |-> NoTime]
    /\ last_alert_lock = NoCaller
    /\ reading_lock = NoCaller
    /\ calc_call = NoCalcCall
    /\ apc = [c \in Callers |-> "idle"]
    /\ aframe = [c \in Callers |-> IdleFrame]
    /\ ncalls = 0
    /\ alert_log = EmptyBag
    /\ played = EmptyBag
    /\ sensor = NewSensor(config.sensor_type, DefaultMaxRetries)
    /\ scall = [c \in SensorCallers |-> IdleCall]
    /\ running = TRUE
    /\ database = NewDatabase(config.retention_days, MaxRows)
    /\ rows = <<>>
    /\ latest_reading = NoSnapshot
    /\ reading_thread = 1
    /\ logging_thread = 1
    /\ rthr = [i \in ThreadIds |->
                 IF i = 1 THEN [UnbornThread EXCEPT !.pc = "loop"]
                 ELSE UnbornThread]
    /\ lthr = rthr
    /\ ctl = [pc |-> "keepalive", call |-> "start"]
    /\ proc = "alive"
    /\ calls = 1
    /\ trace = <<"sensor_ok", "db_ok", "running", "launch_reading",
                 "launch_logging">>
    /\ last_rowid = 0
    /\ store_call = NoStoreCall
    /\ did = history

InitLocks == Started(LockConfigs, Unobserved)

\* a step of the sampling thread i
SamplerStep(i) ==
    \/ ReaderLoop(i)
    \/ ReaderRead(i)
    \/ ProcessCompute(i)
    \/ SnapshotAcquire(i)
    \/ SnapshotStore(i)
    \/ ReaderCheck(i)
    \/ CheckHumidity(i)
    \/ AcquireAlertLock(i)
    \/ DecideAlert(i)
    \/ LogAlert(i)
    \/ PlayAlertSound(i)
    \/ ReaderChecked(i)
    \/ ReaderPublish(i)
    \/ ReaderSleep(i)

\* a step of the persistence thread i
PersisterStep(i) ==
    \/ LoggerLoop(i)
    \/ LoggerAcquire(i)
    \/ LoggerRead(i)
    \/ LoggerLog(i)

\* a step of the thread that called stop()
StopStep ==
    \/ StopCall
    \/ StopJoinReading
    \/ JoinReadingReturns
    \/ StopJoinLogging
    \/ JoinLoggingReturns
    \/ StopCleanupSensor
    \/ StopCloseDatabase

NextLocks ==
    \/ StopStep
    \/ \E i \in ThreadIds : SamplerStep(i)
    \/ \E i \in ThreadIds : PersisterStep(i)

SpecLocks == InitLocks /\ [][NextLocks]_vars

\* the threads of the two loops are scheduled: a thread that can run
\* does run, a sleep and a call of a collaborator return
FairLocks ==
    /\ SpecLocks
    /\ \A i \in ThreadIds :
          WF_vars(SamplerStep(i)) /\ WF_vars(PersisterStep(i))

(***************************************************************************)
(* The same run with what the collaborators of the sampling cycle did kept *)
(* in the history of the cycle: the player of the alert sounds and the     *)
(* publisher.  Alerting and its sound can each be switched off.            *)
(***************************************************************************)
SamplingConfigs ==
    {[DefaultConfig EXCEPT !.sensor_type = "bme280", !.alerts_enabled = e,
                           !.audio_enabled = a, !.hum = h] :
        e \in BOOLEAN, a \in BOOLEAN, h \in {<<30, 70>>, <<50, 70>>}}

InitSampling == Started(SamplingConfigs, [reader |-> <<>>])

SpecSampling == InitSampling /\ [][NextLocks]_vars

InitAlert ==
    /\ InitSensorIdle
    /\ InitOrchIdle
    /\ config \in Configs
    /\ now = 0
    /\ last_alert_time = [k \in Kinds |-> NoTime]
    /\ last_alert_lock = NoCaller
    /\ reading_lock = NoCaller
    /\ calc_call = NoCalcCall
    /\ apc = [c \in Callers |-> "idle"]
    /\ aframe = [c \in Callers |-> IdleFrame]
    /\ ncalls = 0
    /\ alert_log = EmptyBag
    /\ played = EmptyBag

NextAlert ==
    \/ Tick
    \/ \E c \in Callers : CheckThresholds(c)
    \/ \E c \in Callers : CheckHumidity(c)
    \/ \E c \in Callers : AcquireAlertLock(c)
    \/ \E c \in Callers : DecideAlert(c)
    \/ \E c \in Callers : LogAlert(c)
    \/ \E c \in Callers : PlayAlertSound(c)
    \/ \E c \in Callers : ReturnFromCheck(c)

SpecAlert == InitAlert /\ [][NextAlert]_vars

(***************************************************************************)
(* The alert manager under a condition that lasts: the sampling loop calls *)
(* _check_thresholds (437) cycle after cycle with readings that stay out   *)
(* of bounds, while the clock passes the cooldown boundaries.              *)
(***************************************************************************)
MaxRepeatCalls == 3     \* _check_thresholds calls explored per behaviour

\* the one thread that samples
RepeatCaller == 1

\* readings that stay above the maximum temperature, the humidity above
\* its maximum or inside its bounds: every call triggers too_hot
RepeatReadings == {<<301, 701>>, <<301, 500>>}

\* the test of `enabled` and the two chains (445-469)
\* of a _check_thresholds call made by the sampling loop
CheckRepeatedly ==
    /\ apc[RepeatCaller] = "idle"
    /\ ncalls < MaxRepeatCalls
    /\ ncalls' = ncalls + 1
    /\ \E r \in RepeatReadings :
          LET frame == [IdleFrame EXCEPT !.t = r[1], !.h = r[2]] IN
          IF AlertsEnabled(config)
          THEN Branch(RepeatCaller, frame, TempAlert(config, r[1]), "hum")
          ELSE /\ apc' = [apc EXCEPT ![RepeatCaller] = "ret"]
               /\ aframe' = [aframe EXCEPT ![RepeatCaller] = frame]
    /\ UNCHANGED <<config, now, last_alert_time, last_alert_lock,
                   alert_log, played,
                   nonAlertVars>>

NextRepeat ==
    \/ Tick
    \/ CheckRepeatedly
    \/ CheckHumidity(RepeatCaller)
    \/ AcquireAlertLock(RepeatCaller)
    \/ DecideAlert(RepeatCaller)
    \/ LogAlert(RepeatCaller)
    \/ PlayAlertSound(RepeatCaller)
    \/ ReturnFromCheck(RepeatCaller)

SpecRepeat == InitAlert /\ [][NextRepeat]_vars

(***************************************************************************)
(* Properties of the alert manager, checked under SpecAlert.               *)
(***************************************************************************)
CooldownSeconds == config.cooldown_minutes * SecondsPerMinute

Apart(e, f) == IF e.at >= f.at THEN e.at - f.at ELSE f.at - e.at

\* the entries of a bag of firings are distinct and, kind by kind, at least
\* the cooldown apart
Spaced(firings) ==
    \A e \in BagToSet(firings) :
        /\ CopiesIn(e, firings) = 1
        /\ \A f \in BagToSet(firings) :
              (e # f /\ e.kind = f.kind) => Apart(e, f) >= CooldownSeconds

\* C1: under every interleaving of the callers, any two firings of one
\* kind (the time recorded as last-fired, carried by the warning entry and
\* by the playback invocation) are at least cooldown_minutes apart, and
\* playback is invoked only for a firing that was logged.
C1_CooldownSpacing ==
    /\ Spaced(alert_log)
    /\ Spaced(played)
    /\ played \sqsubseteq alert_log

\* C1 witness: a call for a kind that fired earlier, made inside the
\* cooldown window at a later instant, has returned without firing while
\* the log holds the single earlier entry.
C1_Witness ==
    \E c \in Callers :
        /\ apc[c] = "ret"
        /\ Len(aframe[c].called) = 1
        /\ aframe[c].fired = <<>>
        /\ aframe[c].last_time # NoTime
        /\ aframe[c].now > aframe[c].last_time
        /\ BagCardinality(alert_log) = 1

\* the condition of C2 on the alert state itself: kind k never fired, or
\* its last firing is at least the cooldown before instant t
Eligible(k, t) ==
    \/ last_alert_time[k] = NoTime
    \/ t - last_alert_time[k] >= CooldownSeconds

\* C2: a _trigger_alert call whose kind never fired, or last fired at
\* least cooldown_minutes before, records its instant as last-fired and
\* goes on to write the warning entry.
C2_FiresWhenEligible ==
    [][\A c \in Callers :
          LET k == aframe[c].alert_type
              e == [kind |-> k, at |-> aframe[c].now]
          IN  /\ (/\ apc[c] = "ta_decide"
                  /\ apc'[c] # "ta_decide"
                  /\ Eligible(k, aframe[c].now))
                 => (/\ last_alert_time'[k] = aframe[c].now
                     /\ apc'[c] = "ta_log")
              /\ (apc[c] = "ta_log" /\ apc'[c] # "ta_log")
                 => CopiesIn(e, alert_log') = CopiesIn(e, alert_log) + 1
      ]_vars

\* C2 witness: a kind has fired a second time, exactly when the cooldown
\* had elapsed since its first firing.
C2_Witness ==
    \E e \in BagToSet(alert_log), f \in BagToSet(alert_log) :
        /\ e.kind = f.kind
        /\ f.at - e.at = CooldownSeconds

\* C3: a step changes the last-fired time of a kind only when a call for
\* that very kind fires, and a call fires exactly when its own kind is
\* eligible, whatever the other kinds' last-fired times are.
C3_IndependentKinds ==
    [][/\ \A k \in Kinds :
            last_alert_time'[k] # last_alert_time[k]
            => \E c \in Callers : /\ apc[c] = "ta_decide"
                                  /\ apc'[c] = "ta_log"
                                  /\ aframe[c].alert_type = k
       /\ \A c \in Callers :
            (apc[c] = "ta_decide" /\ apc'[c] # "ta_decide")
            => ((apc'[c] = "ta_log")
                  <=> Eligible(aframe[c].alert_type, aframe[c].now))
      ]_vars

\* C3 witness: one _check_thresholds call found a temperature and a
\* humidity violation; the temperature kind was suppressed by its own
\* cooldown and the humidity kind fired.
C3_Witness ==
    \E c \in Callers :
        /\ apc[c] = "ret"
        /\ Len(aframe[c].called) = 2
        /\ aframe[c].fired = <<aframe[c].called[2]>>

\* the kinds the claim C4 expects for a reading (t, h), in tenths
Violated(t, h) ==
    {k \in Kinds :
        \/ k = "too_cold"  /\ t < config.temp[1] * 10
        \/ k = "too_hot"   /\ t > config.temp[2] * 10
                           /\ ~(t < config.temp[1] * 10)
        \/ k = "too_dry"   /\ h < config.hum[1] * 10
        \/ k = "too_humid" /\ h > config.hum[2] * 10
                           /\ ~(h < config.hum[1] * 10)}

SeqRange(s) == {s[i] : i \in 1..Len(s)}

\* C4: with alerts enabled, when _check_thresholds returns it has called
\* _trigger_alert once for each violated dimension and for nothing else:
\* at most one temperature kind, then at most one humidity kind, and none
\* for values within or on the bounds.
C4_ExactlyViolatedKinds ==
    \A c \in Callers :
        (apc[c] = "ret" /\ config.alerts_enabled)
        => LET called == aframe[c].called IN
           /\ SeqRange(called) = Violated(aframe[c].t, aframe[c].h)
           /\ Len(called) = Cardinality(SeqRange(called))
           /\ Cardinality(SeqRange(called) \cap {"too_cold", "too_hot"}) <= 1
           /\ Cardinality(SeqRange(called) \cap {"too_dry", "too_humid"}) <= 1

\* C4 witness: a call with a reading above both maxima has returned after
\* triggering too_hot and too_humid.
C4_Witness ==
    \E c \in Callers :
        /\ apc[c] = "ret"
        /\ aframe[c].called = <<"too_hot", "too_humid">>
        /\ aframe[c].t > config.temp[2] * 10
        /\ aframe[c].h > config.hum[2] * 10

(***************************************************************************)
(* Properties of the sensor drivers, checked under SpecSensor.             *)
(***************************************************************************)
\* C5: when read() returns, it returns a Reading exactly when one of the
\* acquisitions it may make (at most max_retries) gave a valid value, the
\* first such acquisition being the last one made; it returns None after
\* max_retries invalid ones; and no exception ever leaves the call.
C5_RetryOutcome ==
    \A c \in SensorCallers :
        /\ scall[c].pc # "raised"
        /\ scall[c].raised = NoExc
        /\ scall[c].pc \in {"returned", "answered"}
           => IF scall[c].first_valid = 0
              THEN /\ scall[c].result = NoReading
                   /\ scall[c].tried = sensor.max_retries
              ELSE /\ scall[c].first_valid <= sensor.max_retries
                   /\ scall[c].tried = scall[c].first_valid
                   /\ scall[c].result # NoReading

\* C5 witness: two invalid acquisitions, then a valid one on the last
\* attempt that max_retries = 3 allows, and read() has returned a Reading.
C5_Witness ==
    \E c \in SensorCallers :
        /\ scall[c].pc = "returned"
        /\ sensor.max_retries = DefaultMaxRetries
        /\ scall[c].first_valid = DefaultMaxRetries
        /\ scall[c].result # NoReading

\* C7: is_available() makes one read() call, answers true exactly when
\* that call obtained a valid value and returned a Reading, and raises
\* nothing.
C7_AvailableIffReadSucceeds ==
    \A c \in SensorCallers :
        /\ scall[c].mode = "is_available" => scall[c].pc # "raised"
        /\ scall[c].pc = "answered"
           => /\ scall[c].available <=> (scall[c].result # NoReading)
              /\ scall[c].available <=> (scall[c].first_valid # 0)
              /\ scall[c].nreads = 1

\* C7 witness: is_available() has answered false because its own read
\* failed, although an earlier read had succeeded.
C7_Witness ==
    \E c \in SensorCallers :
        /\ scall[c].pc = "answered"
        /\ ~scall[c].available
        /\ scall[c].tried > 0
        /\ sensor.last_reading # NoReading


(***************************************************************************)
(* The running station.                                                    *)
(***************************************************************************)
\* the validity of a reading: both fields present, humidity within
\* [0, 100], temperature within the range of the device (tenths)
InDeviceRange(type, temperature_c, humidity) ==
    /\ temperature_c # Missing /\ humidity # Missing
    /\ 0 <= humidity /\ humidity <= 1000
    /\ -400 <= temperature_c
    /\ temperature_c <= (IF type = "dht22" THEN 800 ELSE 850)

ValidReading(type, r) ==
    /\ {"temperature", "humidity"} \subseteq DOMAIN r
    /\ InDeviceRange(type, r.temperature, r.humidity)

\* C6: every reading a successful read() returns has both fields, a
\* humidity within [0, 100] and a temperature within the range of its
\* device ([-40, 80] DHT22, [-40, 85] BME280); so have the shared latest
\* reading, the copy the logging loop took, and every stored row.
C6_ValidReadings ==
    /\ \A i \in ThreadIds :
          rthr[i].reading # NoReading =>
             ValidReading(config.sensor_type, rthr[i].reading)
    /\ sensor.last_reading # NoReading =>
          ValidReading(config.sensor_type, sensor.last_reading)
    /\ latest_reading # NoSnapshot =>
          InDeviceRange(config.sensor_type, latest_reading.temperature_c,
                        latest_reading.humidity)
    /\ \A i \in ThreadIds :
          lthr[i].reading # NoSnapshot =>
             InDeviceRange(config.sensor_type, lthr[i].reading.temperature_c,
                           lthr[i].reading.humidity)
    /\ \A k \in 1..Len(rows) :
          InDeviceRange(config.sensor_type, rows[k].temperature_c,
                        rows[k].humidity)

\* a BME280 reading at the upper limit has been read, published as the
\* latest reading and stored
C6_Witness ==
    /\ config.sensor_type = "bme280"
    /\ Len(rows) > 0
    /\ rows[1].temperature_c = 850
    /\ latest_reading # NoSnapshot
    /\ \E i \in ThreadIds : rthr[i].reading # NoReading

Events(seq) == {seq[k] : k \in 1..Len(seq)}

\* C8: start() aborts when the sensor is unavailable (an unknown type
\* included) or the store cannot be initialised: the process ends, the
\* running flag is not set and no loop is launched; the flag is set and
\* the loops are launched only after the sensor check, then the store
\* check, have both succeeded.
C8_AbortOrLaunch ==
    /\ [](ctl.call = "start" =>
            /\ (Events(trace) \cap {"sensor_fail", "db_fail"} # {})
                  <=> proc = "exit1"
            /\ proc = "exit1" =>
                  /\ ~running
                  /\ Events(trace) \cap
                        {"running", "launch_reading", "launch_logging"} = {}
            /\ config.sensor_type \notin SensorTypes /\ ctl.pc # "init_sensor"
                  => proc = "exit1"
            /\ Len(trace) >= 1 => trace[1] \in {"sensor_ok", "sensor_fail"}
            /\ Len(trace) >= 2 =>
                  trace[1] = "sensor_ok" /\ trace[2] \in {"db_ok", "db_fail"})
    /\ [][/\ (~running /\ running') =>
                 ctl.call = "start" /\ trace = <<"sensor_ok", "db_ok">>
          /\ (\E i \in ThreadIds :
                 \/ rthr[i].pc = "unborn" /\ rthr'[i].pc # "unborn"
                 \/ lthr[i].pc = "unborn" /\ lthr'[i].pc # "unborn") =>
                 /\ ctl.call = "start" /\ running /\ proc' = "alive"
                 /\ SubSeq(trace, 1, 3) = <<"sensor_ok", "db_ok", "running">>
          /\ proc' = "exit1" =>
                 UNCHANGED <<running, rthr, lthr, reading_thread,
                             logging_thread>>]_vars

\* the store could not be initialised after the sensor had been found
C8_Witness ==
    /\ proc = "exit1"
    /\ trace = <<"sensor_ok", "db_fail">>
    /\ ~running
    /\ \A i \in ThreadIds : rthr[i].pc = "unborn" /\ lthr[i].pc = "unborn"

\* what a start() or stop() call must leave alone to be a no-op
stationState == <<running, sensor, database, reading_thread, logging_thread,
                  rthr, lthr, rows, latest_reading, proc, alertVars>>

\* C9: a stop() call made while stopped, and a start() call made while
\* running, return at once and change nothing of the station (start()
\* logs a warning).
C9_IdempotentCalls ==
    [][calls' = calls + 1 =>
          /\ (ctl'.call \in {"stop", "stop_noop"} /\ ~running) =>
                /\ UNCHANGED stationState
                /\ ctl'.pc = ctl.pc
                /\ trace' = <<>>
          /\ (ctl'.call \in {"start", "start_noop"} /\ running) =>
                /\ UNCHANGED stationState
                /\ ctl'.pc = ctl.pc
                /\ trace' = <<"warning">>]_vars

\* stop() was called a second time after a completed stop(): still one
\* cleanup and one close
C9_Witness ==
    /\ ctl.call = "stop_noop"
    /\ ctl.pc = "idle"
    /\ calls = 3
    /\ sensor.cleanups = 1
    /\ database.closes = 1
    /\ ~running

StopSequences ==
    {<<"clear_flag">> \o jr \o jl \o <<"sensor_cleanup", "db_close">> :
        jr \in {<<>>, <<"join_reading">>}, jl \in {<<>>, <<"join_logging">>}}

IsPrefix(s, t) == Len(s) <= Len(t) /\ SubSeq(t, 1, Len(s)) = s

\* C10: a stop() made while running clears the flag first, then joins the
\* reading loop and the logging loop (each if still alive, each wait
\* bounded), then releases the sensor, then closes the store, and returns
\* with the flag cleared; the sensor is released once and the store closed
\* once, in that order.
C10_StopOrder ==
    ctl.call = "stop" =>
       /\ ~running
       /\ \E full \in StopSequences : IsPrefix(trace, full)
       /\ ctl.pc = "joining_reading" => ENABLED JoinReadingReturns
       /\ ctl.pc = "joining_logging" => ENABLED JoinLoggingReturns
       /\ ctl.pc = "idle" =>
             /\ trace \in StopSequences
             /\ sensor.cleanups = 1
             /\ database.closes = 1

\* stop() has returned after both joins, the reading loop still alive
\* when its join gave up
C10_Witness ==
    /\ ctl.call = "stop"
    /\ ctl.pc = "idle"
    /\ trace = <<"clear_flag", "join_reading", "join_logging",
                 "sensor_cleanup", "db_close">>
    /\ IsAlive(rthr[reading_thread])
    /\ ~running


InsideStop == ctl.call = "stop" /\ ctl.pc # "idle"

\* C11 as stated: while stop() joins the loops and releases the resources
\* the lifecycle state is a third one, stopping, neither running nor
\* stopped.
C11_StoppingObservable ==
    InsideStop => Lifecycle(running) \notin {"running", "stopped"}

\* C11, amended: the lifecycle has the two states of the running flag; it
\* starts stopped, only start() (after both initialisations) makes it
\* running, only the first step of a stop() made while running makes it
\* stopped, and that step always does; while stop() joins and releases,
\* the state read is already stopped.
C11_TwoStateLifecycle ==
    /\ Lifecycle(running) = "stopped"
    /\ [](InsideStop => Lifecycle(running) = "stopped")
    /\ [][/\ (Lifecycle(running) = "stopped" /\ Lifecycle(running') = "running")
                => ctl.call = "start" /\ ctl.pc = "set_running"
          /\ (Lifecycle(running) = "running" /\ Lifecycle(running') = "stopped")
                => calls' = calls + 1 /\ ctl'.call = "stop"
          /\ (calls' = calls + 1 /\ ctl'.call \in {"stop", "stop_noop"}
              /\ Lifecycle(running) = "running")
                => Lifecycle(running') = "stopped"]_vars

\* stop() waits for the reading loop, which is still alive
C11_Witness ==
    /\ ctl.call = "stop"
    /\ ctl.pc = "joining_reading"
    /\ IsAlive(rthr[reading_thread])
    /\ Lifecycle(running) = "stopped"


(***************************************************************************)
(* The loops, cycle by cycle                                               *)
(***************************************************************************)

\* what the sampling loop has done in a cycle that went through all of
\* _process_reading
FullCycle == <<"read_ok", "compute", "store", "check", "publish">>

\* the sampling loop has come to the sleep of a cycle whose read succeeded
ReadSucceeded(i) ==
    /\ rthr[i].pc = "sleep"
    /\ did.reader # <<>>
    /\ Head(did.reader) = "read_ok"

\* C12: in every sampling cycle whose sensor read succeeded, the loop has
\* computed the derived metrics, then replaced the shared snapshot by the
\* one of the reading just read, then checked the thresholds, then
\* forwarded the reading to the publication, in that order.
C12_FullCycleInOrder ==
    \A i \in ThreadIds :
        ReadSucceeded(i) =>
            /\ did.reader = FullCycle
            /\ latest_reading = Snapshot(sensor.last_reading, now)


\* the part of the station's state a cycle of the sampling loop can write
\* through _process_reading: the snapshot and the alerts
sampleState == <<latest_reading, last_alert_time, alert_log, played>>

\* C13: a sensor read that fails skips the sampling cycle.  The step in
\* which read() returns the failure value leaves the shared snapshot and
\* the alert state as they were (no alert logged, none played) and takes
\* the loop to its sleep with nothing computed, stored, checked or
\* published; nothing else happens in that cycle; and the sleep over, the
\* loop reads again if the flag is still set.
C13_FailedReadSkips ==
    /\ [](\A i \in ThreadIds :
            (IsAlive(rthr[i]) /\ did.reader # <<>>
                 /\ Head(did.reader) = "read_failed")
              => did.reader \in {<<"read_failed">>, <<"read_failed", "sleep">>})
    /\ [][\A i \in ThreadIds :
            /\ (rthr[i].pc = "read" /\ rthr'[i].pc # "read"
                    /\ rthr'[i].reading = NoReading)
                 => /\ rthr'[i].pc = "sleep"
                    /\ did'.reader = <<"read_failed">>
                    /\ UNCHANGED sampleState
            /\ (rthr[i].pc = "sleep" /\ rthr'[i].pc # "sleep"
                    /\ did.reader = <<"read_failed">>)
                 => /\ rthr'[i].pc = IF running THEN "read" ELSE "exited"
                    /\ UNCHANGED sampleState]_vars

\* the loop is about to read again after a cycle skipped for a failed
\* read, the snapshot of an earlier cycle still in place
C13_Witness ==
    /\ rthr[1].pc = "read"
    /\ did.reader = <<"read_failed", "sleep">>
    /\ latest_reading # NoSnapshot
    /\ running


\* the number of times event e occurs in history h
RECURSIVE Occurrences(_, _)
Occurrences(h, e) ==
    IF h = <<>> THEN 0
    ELSE (IF Head(h) = e THEN 1 ELSE 0) + Occurrences(Tail(h), e)

\* C14: the sampling loop sleeps the reading interval exactly once between
\* two consecutive sensor reads: whenever the loop is about to read again,
\* what it did since the previous read (which succeeded, or failed, or was
\* followed by an error of the processing) ends with a sleep, the only one.
C14_OneSleepBetweenReads ==
    \A i \in ThreadIds :
        (rthr[i].pc = "read" /\ did.reader # <<>>) =>
            /\ Head(did.reader) \in {"read_ok", "read_failed"}
            /\ Occurrences(did.reader, "sleep") = 1
            /\ did.reader[Len(did.reader)] = "sleep"

\* the loop is about to read again after a cycle whose processing raised
C14_Witness ==
    /\ rthr[1].pc = "read"
    /\ did.reader = <<"read_ok", "compute_error", "error_logged", "sleep">>


\* the history h records an error
HasError(h) ==
    \E k \in 1..Len(h) :
        h[k] = "compute_error" \/ h[k] \in (StoreOutcomes \ {"ok"})

\* C15: no error raised inside an iteration of the sampling loop or of the
\* persistence loop escapes the iteration.  No loop thread ever dies of an
\* exception; the step of the sampling loop in which the processing fails
\* takes the loop to its sleep, and the step of the persistence loop in
\* which a store method fails takes the loop to its next sleep if the flag
\* is still set, to its regular exit if not.
C15_NoErrorEscapes ==
    /\ [](\A i \in ThreadIds : rthr[i].pc # "dead" /\ lthr[i].pc # "dead")
    /\ [][\A i \in ThreadIds :
            /\ (rthr[i].pc = "process" /\ rthr'[i].pc # "process"
                    /\ HasError(did'.reader))
                 => rthr'[i].pc = "sleep"
            /\ (rthr[i].pc = "sleep" /\ rthr'[i].pc # "sleep"
                    /\ HasError(did.reader))
                 => rthr'[i].pc = IF running THEN "read" ELSE "exited"
            /\ (lthr[i].pc = "log" /\ lthr'[i].pc # "log"
                    /\ HasError(did'.logger))
                 => lthr'[i].pc = IF running THEN "sleep" ELSE "exited"]_vars

\* with the flag set, the sampling loop is about to read again after a
\* cycle whose processing raised, and the persistence loop is in its next
\* sleep after a cycle in which log_reading let an exception out
C15_Witness ==
    /\ running
    /\ rthr[1].pc = "read"
    /\ HasError(did.reader)
    /\ lthr[1].pc = "sleep"
    /\ did.logger = <<"sleep", "fetch", "log_reading", "Exception",
                      "raised", "loop_error_logged">>


\* C16: in each cycle the persistence loop takes its copy from the shared
\* snapshot, and then calls log_reading exactly once if the copy is a
\* snapshot and not at all if there was none; a row it adds carries the
\* values of that copy; hence the table has no row while no sample has
\* been stored as the snapshot.
C16_LogsSnapshotOnce ==
    /\ [](rows # <<>> => latest_reading # NoSnapshot)
    /\ [][\A i \in ThreadIds :
            /\ (lthr[i].pc = "sleep" /\ lthr'[i].pc # "sleep")
                 => /\ lthr'[i].reading = latest_reading
                    /\ did'.logger = <<"sleep", "fetch">>
            /\ (lthr[i].pc = "log" /\ lthr'[i].pc # "log")
                 => /\ Occurrences(did'.logger, "log_reading")
                         = (IF lthr[i].reading # NoSnapshot THEN 1 ELSE 0)
                    /\ Len(rows') > Len(rows)
                         => /\ Len(rows') = Len(rows) + 1
                            /\ lthr[i].reading # NoSnapshot
                            /\ rows'[Len(rows')].temperature_c
                                 = lthr[i].reading.temperature_c
                            /\ rows'[Len(rows')].humidity
                                 = lthr[i].reading.humidity]_vars

\* a cycle of the persistence loop has logged the snapshot
C16_Witness ==
    /\ lthr[1].pc = "sleep"
    /\ did.logger = <<"sleep", "fetch", "log_reading", "returned_success">>
    /\ Len(rows) = 1
    /\ rows[1].temperature_c = latest_reading.temperature_c


(***************************************************************************)
(* The nightly cleanup                                                     *)
(***************************************************************************)

\* 03:05 of the first day, the end of the window of line 598
WindowEnd == (3 * 60 + 5) * SecondsPerMinute

\* C17: whatever the logging interval, a persistence loop that runs through
\* the window from 03:00 to 03:05 invokes cleanup_old_data exactly once in
\* it: never more than once, and once the clock is past the window and the
\* cycle that read it is over, exactly once.
C17_CleanupOncePerDay ==
    /\ database.cleanups <= 1
    /\ (now >= WindowEnd /\ \A i \in ThreadIds : lthr[i].pc # "log")
         => database.cleanups = 1


(***************************************************************************)
(* The store                                                               *)
(***************************************************************************)

\* the persistence loop's cycle in which the INSERT of log_reading failed
\* with an error of the store
InsertFailed(h) ==
    \E k \in 1..(Len(h) - 1) :
        h[k] = "log_reading" /\ h[k + 1] = "sqlite3.Error"

\* C18: when the insert fails with a store error, log_reading returns
\* failure and raises nothing, the table and the id counter are as before
\* the call, and the persistence loop goes on to its next sleep (to its
\* regular exit if the flag was cleared meanwhile).
C18_InsertFailureContained ==
    [][\A i \in ThreadIds :
          (lthr[i].pc = "log" /\ lthr'[i].pc # "log"
               /\ InsertFailed(did'.logger))
            => /\ did'.logger = <<"sleep", "fetch", "log_reading",
                                  "sqlite3.Error", "returned_failure">>
               /\ rows' = rows
               /\ last_rowid' = last_rowid
               /\ lthr'[i].pc = IF running THEN "sleep" ELSE "exited"]_vars

\* the loop sleeps again after a cycle whose insert failed on an empty
\* table
C18_Witness ==
    /\ running
    /\ lthr[1].pc = "sleep"
    /\ InsertFailed(did.logger)
    /\ latest_reading # NoSnapshot
    /\ rows = <<>>


\* the moment a timestamp text stands for, in seconds
Moment(text) == text[1] * SecondsPerDay + text[3]

\* the row is older than the retention period at the moment now_
OlderThanRetention(row, now_, retention_days) ==
    Moment(row.timestamp) < now_ - retention_days * SecondsPerDay

\* the rows that are not older than the retention period
Younger(rows_, now_, retention_days) ==
    SelectSeq(rows_, LAMBDA r : ~OlderThanRetention(r, now_, retention_days))

\* the step is a call of cleanup_old_data
CleanupCalled == database'.cleanups = database.cleanups + 1

\* C19: a call of cleanup_old_data whose statement goes through deletes
\* exactly the rows older than now minus retention_days, leaves the other
\* rows as they are, and returns the number of rows deleted.
C19_DeletesExactlyOld ==
    [][(CleanupCalled /\ store_call'.did = <<"cleanup_old_data">>)
         => /\ rows' = Younger(rows, now, database.retention_days)
            /\ store_call'.ret = Len(rows) - Len(rows')]_vars

\* the statement of the call failed with an error of the store
StoreErred(call) ==
    \E k \in 1..Len(call.did) : call.did[k] = "sqlite3.Error"

\* the previous call was a cleanup_old_data that went through, made at
\* this moment
JustCleaned ==
    /\ store_call.op = "cleanup_old_data"
    /\ store_call.at = now
    /\ store_call.did = <<"cleanup_old_data">>

\* C20: a call of cleanup_old_data that follows another one made at the
\* same moment, with no call in between, leaves the table as the first
\* left it and, unless it raises, returns 0; and a call whose statement
\* fails with a store error returns 0, raises nothing and leaves the
\* table alone.
C20_CleanupIdempotent ==
    [][CleanupCalled
         => /\ JustCleaned
                 => /\ rows' = rows
                    /\ store_call'.raised = NoExc => store_call'.ret = 0
            /\ StoreErred(store_call')
                 => /\ store_call'.raised = NoExc
                    /\ store_call'.ret = 0
                    /\ rows' = rows]_vars

\* a second cleanup_old_data at the same moment has returned 0, the
\* first having deleted two rows of five
C20_Witness ==
    /\ store_call.op = "cleanup_old_data"
    /\ store_call.again
    /\ store_call.did = <<"cleanup_old_data">>
    /\ store_call.raised = NoExc
    /\ store_call.ret = 0
    /\ database.cleanups = 2
    /\ last_rowid = 5
    /\ Len(rows) = 3


\* ---------------------------------------------------------------------
\* The queries of the store (SpecQuery)

\* the call looked at is a call of op whose statement went through
Went(call, op) == call.op = op /\ call.raised = NoExc /\ Len(call.did) = 1

Logged(call) == call.did = <<"log_reading", "returned_success">>

ReadingFields ==
    {"temperature_c", "temperature_f", "humidity", "dew_point_c",
     "heat_index_c", "comfort_level"}

\* C21: the record a successful log_reading wrote is the one the next
\* get_latest_reading returns, field for field and with the optional
\* fields that were left out still absent, also when an earlier row has
\* the same timestamp; on an empty table get_latest_reading returns
\* nothing
C21_LatestIsJustWritten ==
    [][Went(store_call', "get_latest_reading")
       => /\ rows = <<>> => store_call'.ret = Absent
          /\ Logged(store_call)
             => /\ Len(store_call'.ret) = 1
                /\ store_call'.ret[1].id = last_rowid
                /\ \A f \in ReadingFields :
                      store_call'.ret[1][f] = Optional(store_call.args, f)
      ]_vars

\* the latest reading was asked for while two different rows carried the
\* same timestamp, and the later one of them came back without its
\* optional fields
C21_Witness ==
    /\ Went(store_call, "get_latest_reading")
    /\ Len(rows) = 2
    /\ rows[1].timestamp = rows[2].timestamp
    /\ rows[1].temperature_c # rows[2].temperature_c
    /\ store_call.ret = <<rows[2]>>
    /\ rows[2].dew_point_c = Absent


\* the stored records whose moment lies in the range asked for
InRange(call) ==
    {k \in 1..Len(rows) :
        /\ Moment(rows[k].timestamp) >= call.args.start_time
        /\ Moment(rows[k].timestamp) <= call.args.end_time}

\* C22: get_historical_data(start, end, limit) returns exactly the stored
\* records whose timestamp lies in [start, end], newest first, cut to
\* the `limit` newest of them, and leaves the store as it was
C22_HistoricalExactRange ==
    [][Went(store_call', "get_historical_data")
       => LET call == store_call'
              ret  == call.ret
              got  == {ret[k].id : k \in 1..Len(ret)}
          IN  /\ rows' = rows
              /\ \A k \in 1..Len(ret) :
                    \E j \in InRange(call) : rows[j] = ret[k]
              /\ \A k, j \in 1..Len(ret) :
                    k < j => /\ ret[k].id # ret[j].id
                             /\ Moment(ret[k].timestamp)
                                   >= Moment(ret[j].timestamp)
              /\ Len(ret) = IF call.args.limit < Cardinality(InRange(call))
                            THEN call.args.limit
                            ELSE Cardinality(InRange(call))
              /\ \A j \in InRange(call) :
                    rows[j].id \notin got
                    => \A k \in 1..Len(ret) :
                          Moment(rows[j].timestamp)
                             <= Moment(ret[k].timestamp)
      ]_vars


\* the stored records that fall in the window of a get_statistics call,
\* which starts PeriodDays before the call and is open to the future
InWindow(call) ==
    {k \in 1..Len(rows) :
        Moment(rows[k].timestamp)
           >= call.at - PeriodDays(call.args.period) * SecondsPerDay}

\* the statistics of a column over the records of the window agree with
\* what a call reports: least, greatest, and the mean to the nearest tenth
ColumnAgrees(reported, column, window) ==
    LET values == {rows[k][column] : k \in window}
        sum    == Total([k \in 1..Len(rows) |->
                            IF k \in window THEN rows[k][column] ELSE 0])
        n      == Cardinality(window)
    IN  /\ Len(reported.min) = 1 /\ Len(reported.max) = 1
        /\ Len(reported.avg) = 1
        /\ reported.min[1] \in values
        /\ reported.max[1] \in values
        /\ \A v \in values : reported.min[1] <= v /\ v <= reported.max[1]
        /\ 2 * (reported.avg[1] * n - sum) <= n
        /\ 2 * (sum - reported.avg[1] * n) <= n
        /\ reported.min[1] <= reported.avg[1]
        /\ reported.avg[1] <= reported.max[1]

\* C23: get_statistics(period) returns nothing exactly when no stored
\* record falls in the window of the period; otherwise reading_count is
\* the number of records in the window, and the minimum, maximum and
\* average of temperature and of humidity are those of the records in
\* the window, a value of 0 included, with min <= avg <= max
C23_StatisticsOfWindow ==
    [][Went(store_call', "get_statistics")
       => LET call == store_call'
          IN  /\ call.ret = Absent <=> InWindow(call) = {}
              /\ call.ret # Absent
                 => /\ call.ret[1].reading_count
                          = Cardinality(InWindow(call))
                    /\ ColumnAgrees(call.ret[1].temperature,
                                    "temperature_c", InWindow(call))
                    /\ ColumnAgrees(call.ret[1].humidity,
                                    "humidity", InWindow(call))
      ]_vars


RowsOf(table) == {table[k] : k \in 1..Len(table)}
IdsOf(table) == {table[k].id : k \in 1..Len(table)}

\* C24: the table is append-only.  A log_reading that succeeds adds one
\* row, whose id is greater than every id given out before, also after
\* rows were pruned; the rows that stay keep their fields; and a row
\* goes away only in a call of cleanup_old_data
C24_AppendOnly ==
    [][/\ last_rowid' >= last_rowid
       /\ \A id \in IdsOf(rows) : id <= last_rowid
       /\ \A r \in RowsOf(rows') : r.id <= last_rowid => r \in RowsOf(rows)
       /\ Cardinality(IdsOf(rows')) = Len(rows')
       /\ Logged(store_call')
          => /\ Len(rows') = Len(rows) + 1
             /\ RowsOf(rows) \subseteq RowsOf(rows')
             /\ \E r \in RowsOf(rows') : r.id > last_rowid
       /\ ~(RowsOf(rows) \subseteq RowsOf(rows'))
          => store_call'.op = "cleanup_old_data"
       /\ ~Logged(store_call')
          => RowsOf(rows') \subseteq RowsOf(rows)
      ]_vars

\* a reading was logged after the rows before it had been pruned, and its
\* id is not the one of a pruned row
C24_Witness ==
    /\ Logged(store_call)
    /\ database.cleanups > 0
    /\ Len(rows) = 1
    /\ rows[1].id = 2


\* ---------------------------------------------------------------------
\* The two mutexes (SpecLocks)

Sampler(i)   == ThreadIdent("reader", i)
Persister(i) == ThreadIdent("logger", i)

HoldsSome(id) == reading_lock = id \/ last_alert_lock = id
HoldsBoth(id) == reading_lock = id /\ last_alert_lock = id

\* the thread is in a call of the sensor, of the publisher or of the
\* player / of the store
SamplerCallsOut(i) ==
    rthr[i].pc \in {"read", "publish"} \/ apc[i] = "ta_play"
PersisterCallsOut(i) == lthr[i].pc = "log"

\* the thread is at the entry of a `with` block whose lock is taken
SamplerWaits(i) ==
    \/ rthr[i].pc = "snapshot_lock" /\ ~CanAcquire(reading_lock)
    \/ rthr[i].pc = "checking" /\ apc[i] = "ta_lock"
          /\ ~CanAcquire(last_alert_lock)
PersisterWaits(i) == lthr[i].pc = "sleep" /\ ~CanAcquire(reading_lock)

\* the holder of a taken lock can take its next step
HolderCanStep ==
    /\ reading_lock # NoCaller
       => \E j \in ThreadIds :
             \/ reading_lock = Sampler(j) /\ ENABLED SnapshotStore(j)
             \/ reading_lock = Persister(j) /\ ENABLED LoggerRead(j)
    /\ last_alert_lock # NoCaller
       => \E j \in ThreadIds :
             last_alert_lock = Sampler(j) /\ ENABLED DecideAlert(j)

\* C25: the snapshot mutex and the alert-state mutex are leaf locks: no
\* thread holds one of them while it calls the sensor, the store, the
\* publisher or the player, no thread holds both, and no state of the
\* sampling loop, the persistence loop and stop() is a deadlock: every
\* thread that has not ended can step, or waits for a lock whose holder
\* can step
C25_LeafLocks ==
    /\ \A i \in ThreadIds :
          /\ SamplerCallsOut(i) => ~HoldsSome(Sampler(i))
          /\ PersisterCallsOut(i) => ~HoldsSome(Persister(i))
          /\ ~HoldsBoth(Sampler(i)) /\ ~HoldsBoth(Persister(i))
          /\ IsAlive(rthr[i])
             => IF SamplerWaits(i) THEN HolderCanStep
                ELSE ENABLED SamplerStep(i)
          /\ IsAlive(lthr[i])
             => IF PersisterWaits(i) THEN HolderCanStep
                ELSE ENABLED PersisterStep(i)
    /\ HolderCanStep
    /\ ctl.call = "stop" /\ ctl.pc # "idle" => ENABLED StopStep

\* the sampling thread is inside its snapshot block while the persistence
\* thread waits for the lock and stop() waits for the sampling thread
C25_Witness ==
    /\ rthr[1].pc = "snapshot_store"
    /\ reading_lock = Sampler(1)
    /\ PersisterWaits(1)
    /\ ctl.pc = "joining_reading"


NoLoopAlive ==
    \A i \in ThreadIds : ~IsAlive(rthr[i]) /\ ~IsAlive(lthr[i])

\* a loop thread begins an iteration: it passes the test of the flag
BeginsIteration ==
    \E i \in ThreadIds :
       \/ rthr[i].pc \in {"loop", "sleep"} /\ rthr'[i].pc = "read"
       \/ lthr[i].pc \in {"loop", "log"} /\ lthr'[i].pc = "sleep"

\* C26: cancellation is cooperative and takes effect: once stop() has
\* cleared the flag, and it is not set again, no loop begins another
\* iteration, and both loops end
C26_LoopsEnd ==
    /\ [][~running => ~BeginsIteration]_vars
    /\ ~running ~> NoLoopAlive

\* stop() has cleared the flag in the middle of an iteration of each
\* loop, and later both loops have ended
C26_Witness ==
    /\ ~running
    /\ NoLoopAlive
    /\ rows # <<>>
    /\ ctl.call = "stop"


\* ---------------------------------------------------------------------
\* The workers over start() and stop() calls (Spec)

SamplingWorkers == {i \in ThreadIds : IsAlive(rthr[i])}
PersistenceWorkers == {i \in ThreadIds : IsAlive(lthr[i])}

\* C27: at every moment, after any start() and stop() calls, also a
\* start() after a stop() whose join timed out, at most one sampling
\* worker and at most one persistence worker are active
C27_OneWorkerEach ==
    /\ Cardinality(SamplingWorkers) <= 1
    /\ Cardinality(PersistenceWorkers) <= 1


\* the nine values a comfort level can take
ComfortLevels ==
    {"comfortable", "too_cold", "too_hot", "too_dry", "too_humid",
     "too_cold_and_too_dry", "too_cold_and_too_humid",
     "too_hot_and_too_dry", "too_hot_and_too_humid"}

\* C28: calculate_comfort_level tags the temperature too_cold exactly below
\* 18 and too_hot exactly above 26, the humidity too_dry exactly below 30
\* and too_humid exactly above 60; it returns "comfortable" with no tag,
\* the tag alone with one, and with two the temperature tag, "_and_" and
\* the humidity tag: always one of nine values.
C28_ComfortLevelByBounds ==
    calc_call.fn = "calculate_comfort_level" =>
        LET t     == calc_call.args.temperature_c
            h     == calc_call.args.humidity
            cold  == t < 180
            hot   == t > 260
            dry   == h < 300
            humid == h > 600
            level == IF cold /\ dry THEN "too_cold_and_too_dry"
                     ELSE IF cold /\ humid THEN "too_cold_and_too_humid"
                     ELSE IF hot /\ dry THEN "too_hot_and_too_dry"
                     ELSE IF hot /\ humid THEN "too_hot_and_too_humid"
                     ELSE IF cold THEN "too_cold"
                     ELSE IF hot THEN "too_hot"
                     ELSE IF dry THEN "too_dry"
                     ELSE IF humid THEN "too_humid"
                     ELSE "comfortable"
        IN  /\ calc_call.raised = NoExc
            /\ calc_call.ret = <<level>>
            /\ level \in ComfortLevels

\* 28 degrees at 65 percent has been classified as too hot and too humid
C28_Witness ==
    /\ calc_call.fn = "calculate_comfort_level"
    /\ calc_call.args = [temperature_c |-> 280, humidity |-> 650]
    /\ calc_call.ret = <<"too_hot_and_too_humid">>

\* C29: celsius_to_fahrenheit, calculate_dew_point and
\* calculate_comfort_level return a value and raise nothing for every
\* temperature of the sensors' range and every humidity from 0 to 100,
\* humidity 0 included.
C29_CalculatorsTotal ==
    calc_call.fn \in {"celsius_to_fahrenheit", "calculate_dew_point",
                      "calculate_comfort_level"} =>
        /\ calc_call.raised = NoExc
        /\ Len(calc_call.ret) = 1

\* the heat index is absent exactly when temp_f is below 80
AbsentBelowEighty(call) == (call.ret = Absent) <=> (call.args.temp_f < 8000)

\* the heat index returned is above the temperature it was computed from:
\* hi > (temp_f - 32) / 1.8, both sides multiplied by 18
AboveTemperature(call) == 18 * call.ret[1] > call.args.temp_f - 3200

\* C30 as stated: calculate_heat_index returns None exactly when temp_f is
\* below 80, and whatever the humidity from 0 to 100, a value it returns
\* is strictly greater than the temperature.
C30_HeatIndexAboveTemperature ==
    calc_call.fn = "calculate_heat_index" =>
        /\ AbsentBelowEighty(calc_call)
        /\ calc_call.ret # Absent => AboveTemperature(calc_call)

\* C30 amended: calculate_heat_index returns None exactly when temp_f is
\* below 80 (at 80 it returns a value), and for every humidity from 50 to
\* 100 a value it returns is strictly greater than the temperature.
C30_HeatIndexAboveWhenHumid ==
    calc_call.fn = "calculate_heat_index" =>
        /\ AbsentBelowEighty(calc_call)
        /\ (calc_call.ret # Absent /\ calc_call.args.humidity >= 500)
               => AboveTemperature(calc_call)

\* the heat index has been computed at exactly 80 degrees F and a humidity
\* of at least 50 percent
C30_Witness ==
    /\ calc_call.fn = "calculate_heat_index"
    /\ calc_call.args.temp_f = 8000
    /\ calc_call.args.humidity >= 500
    /\ calc_call.ret # Absent


\* C31: for every temperature of the sensors' range and every humidity
\* above 0 and up to 100, the dew point calculate_dew_point returns is at
\* most the temperature.
C31_DewPointAtMostTemperature ==
    (/\ calc_call.fn = "calculate_dew_point"
     /\ calc_call.args.humidity > 0
     /\ calc_call.args.humidity <= 1000) =>
        /\ calc_call.raised = NoExc
        /\ Len(calc_call.ret) = 1
        /\ calc_call.ret[1] <= calc_call.args.temperature_c

\* a dew point has been computed in saturated air, where it is the
\* temperature itself, and one in drier air, where it is below
C31_Witness ==
    /\ calc_call.fn = "calculate_dew_point"
    /\ calc_call.args.humidity = 1000
    /\ calc_call.ret = <<calc_call.args.temperature_c>>
    /\ DewPointOf(calc_call.args.temperature_c, 500)
           < calc_call.args.temperature_c


\* the instants at which kind k fired: those of the warning entries
\* written and of the firings decided whose entry is about to be written
FiringTimes(k) ==
    {e.at : e \in {f \in BagToSet(alert_log) : f.kind = k}}
    \cup {aframe[c].now : c \in {d \in Callers : /\ apc[d] = "ta_log"
                                                 /\ aframe[d].alert_type = k}}

\* the cooldown of kind k is running at instant t: some firing of k lies
\* less than cooldown_minutes before t
Suppressing(k, t) ==
    \E at \in FiringTimes(k) : t - at < config.cooldown_minutes * 60

\* the alert state: the last-fired times, the warning entries, the
\* playback invocations
AlertState == <<last_alert_time, alert_log, played>>

\* C32: a _trigger_alert call made within cooldown_minutes of the last
\* firing of its kind returns and leaves the last-fired times, the log and
\* the playbacks as they were; a call made when no firing of its kind lies
\* within cooldown_minutes fires, so the window runs from the last actual
\* firing and a kind triggered without pause fires again after it.
C32_SuppressedCallChangesNothing ==
    [][\A c \in Callers :
          (apc[c] = "ta_decide" /\ apc'[c] # "ta_decide") =>
              IF Suppressing(aframe[c].alert_type, aframe[c].now)
              THEN /\ AlertState' = AlertState
                   /\ apc'[c] = aframe[c].after
              ELSE /\ apc'[c] = "ta_log"
                   /\ last_alert_time'[aframe[c].alert_type] = aframe[c].now
      ]_vars

\* too_hot has been triggered by three calls in a row: it fired at 0, one
\* call was suppressed, and it fired again at 60, one minute of cooldown
\* after the firing
C32_Witness ==
    /\ config.cooldown_minutes = 1
    /\ ncalls = 3
    /\ now = 60
    /\ \A c \in Callers : apc[c] = "idle"
    /\ last_alert_time["too_hot"] = 60
    /\ {e.at : e \in {f \in BagToSet(alert_log) : f.kind = "too_hot"}}
           = {0, 60}


\* the history a sampling cycle can have when it alerts on nothing: the
\* read, for a reading the publication, then the sleep
QuietCycles ==
    LET working == {<<>>, <<"read_ok">>}
        done    == {<<"read_failed">>}
                   \cup {<<"read_ok", "publish_" \o o>> : o \in PublishOutcomes}
    IN  working \cup done \cup {Append(h, "sleep") : h \in done}

\* C33: with alerts.enabled false no alert is triggered whatever the
\* reading: no last-fired time is recorded, no alert is logged, the player
\* is never invoked; the cycle still writes the snapshot of the reading
\* and publishes it.
C33_DisabledAlertsTriggerNothing ==
    ~config.alerts_enabled =>
        /\ \A k \in Kinds : last_alert_time[k] = NoTime
        /\ alert_log = EmptyBag
        /\ played = EmptyBag
        /\ \A c \in Callers : apc[c] \in {"idle", "ret"}
        /\ did.reader \in QuietCycles
        /\ \A i \in ThreadIds :
              rthr[i].pc \in {"check", "checking", "publish"} =>
                  /\ latest_reading # NoSnapshot
                  /\ latest_reading.temperature_c = rthr[i].reading.temperature
                  /\ latest_reading.humidity = rthr[i].reading.humidity

\* with alerts disabled, a cycle has stored and published a reading of
\* 85.0 degrees, far above the maximum of 30
C33_Witness ==
    /\ ~config.alerts_enabled
    /\ Len(did.reader) = 2
    /\ did.reader[2] = "publish_published"
    /\ latest_reading # NoSnapshot
    /\ latest_reading.temperature_c = 850
    /\ latest_reading.temperature_c > config.temp[2] * 10

\* C34: playback that fails or times out does not leave _trigger_alert as
\* an error and the firing stays recorded; a publication that fails or
\* times out does not leave the sampling cycle as an error and the
\* snapshot written in the cycle is kept; the player is invoked only by a
\* call that fired and only when audio alerts are enabled.
C34_CollaboratorFailuresNotFatal ==
    [][/\ \A c \in Callers :
            (apc[c] = "ta_play" /\ apc'[c] # "ta_play") =>
                /\ apc'[c] = aframe[c].after
                /\ last_alert_time'[aframe[c].alert_type] = aframe[c].now
                /\ alert_log' = alert_log
                /\ proc' = "alive"
       /\ \A i \in ThreadIds :
            (rthr[i].pc = "publish" /\ rthr'[i].pc # "publish") =>
                /\ rthr'[i].pc = "sleep"
                /\ proc' = "alive"
                /\ latest_reading' = latest_reading
                /\ latest_reading # NoSnapshot
                /\ latest_reading.temperature_c = rthr[i].reading.temperature
                /\ latest_reading.humidity = rthr[i].reading.humidity
                /\ did'.reader[Len(did'.reader)] # "raised"
       /\ played' # played =>
            \E c \in Callers :
                LET e == [kind |-> aframe[c].alert_type, at |-> aframe[c].now]
                IN  /\ apc[c] = "ta_play"
                    /\ config.audio_enabled
                    /\ config.alerts_enabled
                    /\ aframe[c].fired # <<>>
                    /\ aframe[c].fired[Len(aframe[c].fired)]
                           = aframe[c].alert_type
                    /\ CopiesIn(e, alert_log) >= 1
                    /\ played' = played (+) SetToBag({e})
      ]_vars

\* a cycle fired too_hot, its playback timed out, its publication failed,
\* and the cycle ended at its sleep with the firing and the snapshot kept
C34_Witness ==
    /\ did.reader = <<"read_ok", "playback_timeout", "publish_error">>
    /\ \E i \in ThreadIds : rthr[i].pc = "sleep"
    /\ last_alert_time["too_hot"] = now
    /\ BagCardinality(alert_log) = 1
    /\ latest_reading # NoSnapshot
    /\ latest_reading.temperature_c = 850


\* C35: one read() call makes at most max_retries attempts and stops at
\* the first that succeeds; it sleeps retry_delay once between two
\* consecutive attempts and not after the last one, so a success on
\* attempt k + 1 has cost k sleeps and max_retries failures have cost
\* max_retries - 1; with max_retries = 0 it attempts nothing and fails.
C35_AttemptsAndWaits ==
    \A c \in SensorCallers :
        /\ scall[c].tried <= sensor.max_retries
        /\ scall[c].sleeps <= scall[c].tried
        /\ scall[c].pc = "sleep" =>
              /\ scall[c].tried < sensor.max_retries
              /\ scall[c].sleeps = scall[c].tried - 1
        /\ scall[c].pc \in {"returned", "answered"} =>
              IF scall[c].result # NoReading
              THEN /\ scall[c].tried = scall[c].first_valid
                   /\ scall[c].sleeps = scall[c].tried - 1
              ELSE /\ scall[c].first_valid = 0
                   /\ scall[c].tried = sensor.max_retries
                   /\ scall[c].sleeps =
                         IF sensor.max_retries = 0 THEN 0
                         ELSE sensor.max_retries - 1

\* three attempts have failed and read() has returned failure after two
\* sleeps
C35_Witness ==
    \E c \in SensorCallers :
        /\ scall[c].pc = "returned"
        /\ scall[c].mode = "read"
        /\ scall[c].result = NoReading
        /\ sensor.max_retries = 3
        /\ scall[c].tried = 3
        /\ scall[c].sleeps = 2

\* a value that may be kept as last_reading: a Reading within the ranges
\* of the driver, in tenths
Storable(type, reading) ==
    /\ reading # NoReading
    /\ reading.temperature >= TempRange(type)[1] * 10
    /\ reading.temperature <= TempRange(type)[2] * 10
    /\ reading.humidity >= 0
    /\ reading.humidity <= 1000

\* C36: last_reading is absent until a read() succeeds and then is the
\* Reading the most recent successful read() returned: it changes only
\* in the step in which a call returns that Reading, a call that fails,
\* made directly or through is_available(), leaves it as it was, and it is
\* never a value out of range.
C36_LastReadingIsLastSuccess ==
    [][/\ sensor'.last_reading # sensor.last_reading =>
            \E c \in SensorCallers :
                /\ scall[c].pc = "loop"
                /\ scall'[c].pc = "returned"
                /\ scall'[c].result = sensor'.last_reading
                /\ Storable(sensor.type, sensor'.last_reading)
       /\ \A c \in SensorCallers :
            (scall[c].pc = "loop" /\ scall'[c].pc = "returned") =>
                IF scall'[c].result = NoReading
                THEN sensor'.last_reading = sensor.last_reading
                ELSE sensor'.last_reading = scall'[c].result
       /\ \A c \in SensorCallers :
            (scall[c].pc = "loop" /\ scall'[c].pc \in {"loop", "sleep"}) =>
                sensor'.last_reading = sensor.last_reading
      ]_vars

\* a read() has failed on values out of range after an earlier read had
\* succeeded, and last_reading is still the earlier Reading
C36_Witness ==
    \E c \in SensorCallers :
        /\ scall[c].pc = "returned"
        /\ scall[c].mode = "read"
        /\ scall[c].result = NoReading
        /\ scall[c].tried > 0
        /\ sensor.last_reading # NoReading
        /\ Storable(sensor.type, sensor.last_reading)


\* the fields of a snapshot or of a row are those of one reading: the
\* Fahrenheit value, the dew point, the heat index and the comfort level
\* are the ones computed from its temperature and its humidity
OfOneReading(r) ==
    /\ r.temperature_f = 18 * r.temperature_c + 3200
    /\ r.dew_point_c = <<DewPointOf(r.temperature_c, r.humidity)>>
    /\ r.heat_index_c = HeatIndexOf(r.temperature_f, r.humidity)
    /\ r.comfort_level = ComfortLevel(r.temperature_c, r.humidity)

\* the values a snapshot and a row share
Values(r) ==
    <<r.temperature_c, r.temperature_f, r.humidity, r.dew_point_c,
      r.heat_index_c, r.comfort_level>>

\* C37: under every interleaving of the two loops, the snapshot the
\* persistence loop reads is the one most recently written, whole: it is
\* read while no sampling thread is inside its write, its temperature,
\* humidity and derived metrics all belong to one reading, and the row
\* persisted carries exactly these values.
C37_SnapshotReadWhole ==
    [][/\ latest_reading' # NoSnapshot => OfOneReading(latest_reading')
       /\ \A i \in ThreadIds :
            (lthr[i].pc = "fetch" /\ lthr'[i].pc = "log") =>
                /\ lthr'[i].reading = latest_reading
                /\ \A j \in ThreadIds : rthr[j].pc # "snapshot_store"
                /\ latest_reading # NoSnapshot
                       => OfOneReading(lthr'[i].reading)
       /\ \A i \in ThreadIds :
            (lthr[i].pc = "log" /\ Len(rows') = Len(rows) + 1) =>
                /\ OfOneReading(rows'[Len(rows')])
                /\ Values(rows'[Len(rows')]) = Values(lthr[i].reading)
      ]_vars

\* the persistence loop holds the snapshot of 85.0 degrees it has read
\* while the sampling loop, one cycle further, waits to write 22.5
C37_Witness ==
    \E i \in ThreadIds, j \in ThreadIds :
        /\ lthr[i].pc = "log"
        /\ lthr[i].reading # NoSnapshot
        /\ lthr[i].reading.temperature_c = 850
        /\ lthr[i].reading.heat_index_c # Absent
        /\ rthr[j].pc = "snapshot_lock"
        /\ rthr[j].reading.temperature = 225


OrchestratorStopped ==
    /\ ~running
    /\ ctl.call \in {"stop", "stop_noop"}
    /\ ctl.pc \in {"idle", "keepalive"}
    /\ sensor.cleanups > 0
    /\ database.closes > 0

\* a sampling loop calls self.sensor.read() (551)
SensorReadStep ==
    \E i \in ThreadIds : rthr[i].pc = "read" /\ rthr'[i].pc # "read"

\* a persistence loop calls database.log_reading (582-590) or
\* database.cleanup_old_data (599)
StoreWriteStep ==
    \E i \in ThreadIds :
       /\ lthr[i].pc = "log"
       /\ lthr'[i].pc # "log"
       /\ \/ SnapshotPresent(lthr[i].reading)
          \/ database'.cleanups > database.cleanups

\* C39: once stop() has released the sensor and closed the store, neither
\* loop reads the sensor again or writes to the store again (log_reading or
\* cleanup_old_data), however stop() and the two loops interleave and
\* however long the loops sleep against the five seconds of a join.
C39_NoLoopActsAfterStop ==
    [][OrchestratorStopped => ~(SensorReadStep \/ StoreWriteStep)]_vars


(***************************************************************************)
(* Rows and samples                                                        *)
(***************************************************************************)

\* a cycle of the persistence loop ends: line 581 and what follows it
LogsNow(i) == lthr[i].pc = "log" /\ lthr'[i].pc # "log"

\* The copy a cycle holds was stored before the last row was written.  The
\* clock moves only at the end of a sleep of the persistence loop, at the
\* step that takes the copy, so a snapshot stamped before the moment of the
\* last row was the shared snapshot when that row was written, and no
\* sample has replaced it since: the last row was written from it.
AlreadyWritten(snap, rows_) ==
    /\ snap # NoSnapshot
    /\ rows_ # <<>>
    /\ snap.timestamp < WrittenAt(rows_[Len(rows_)])

\* the values of a snapshot that a row keeps
Kept(r) == [k \in {"temperature_c", "temperature_f", "humidity",
                   "comfort_level"} |-> r[k]]

\* C40 as stated: every row the persistence loop writes is of a sample of
\* its own; when no successful sample has replaced the shared snapshot
\* since the previous write, the loop does not write that snapshot again.
C40_RowsOfDistinctSamples ==
    [][\A i \in ThreadIds :
          (LogsNow(i) /\ Len(rows') > Len(rows))
             => ~AlreadyWritten(lthr[i].reading, rows)]_vars

\* C40, amended: every row the persistence loop writes is of the sample
\* that was the shared snapshot when the cycle took its copy, which need
\* not be a new one: the loop calls log_reading in every cycle whose copy
\* is a snapshot, also when no successful sample has replaced the snapshot
\* since the previous write, and the row it then adds repeats the values of
\* the row before it.
C40_RowsOfLatestSample ==
    [][\A i \in ThreadIds :
          (LogsNow(i) /\ lthr[i].reading # NoSnapshot)
             => /\ Occurrences(did'.logger, "log_reading") = 1
                /\ Len(rows') > Len(rows)
                     => /\ Len(rows') = Len(rows) + 1
                        /\ Kept(rows'[Len(rows')]) = Kept(lthr[i].reading)
                        /\ AlreadyWritten(lthr[i].reading, rows)
                             => Kept(rows'[Len(rows')])
                                  = Kept(rows[Len(rows)])]_vars

\* two rows five minutes apart, both of the one sample taken before the
\* first of them; the read after it has failed
C40_Witness ==
    /\ Len(rows) = 2
    /\ WrittenAt(rows[2]) = WrittenAt(rows[1]) + config.logging_seconds
    /\ latest_reading # NoSnapshot
    /\ latest_reading.timestamp < WrittenAt(rows[1])
    /\ Kept(rows[2]) = Kept(rows[1])
    /\ did.reader = <<"read_failed">>

=============================================================================
